---------------------------- MODULE Spec2Model ----------------------------
(***************************************************************************)
(* A model of the L2CAP channel manager of bumble (src/bumble/l2cap.py):   *)
(* two hosts, each with its ChannelManager, joined by one connection.      *)
(* Every PDU one host sends is queued towards the other and handed to the  *)
(* receiving manager later, in order (src/bumble/link.py, send_acl_data).  *)
(*                                                                         *)
(* Python objects are modelled as objects: chan[e] is the heap of channel  *)
(* objects of host e (indexed by creation order), and the manager's maps   *)
(* channels[e] and le_coc_channels[e] hold references into it, so that a   *)
(* channel dropped from a map lives on for the code that still holds it.   *)
(***************************************************************************)
EXTENDS Integers, Sequences, FiniteSets, TLC

VARIABLES
    transport,          \* Connection.transport: "LE" or "BR_EDR"
    connected,          \* connected[e]: host e has not yet seen the disconnection event
    link,               \* link[e]: PDUs in flight towards host e (call_soon order)
    chan,               \* chan[e][u]: the channel objects host e has created
    channels,           \* ChannelManager.channels[handle]: source cid -> channel
    le_coc_channels,    \* ChannelManager.le_coc_channels[handle]: destination cid -> channel
    le_coc_requests,    \* ChannelManager.le_coc_requests: identifier -> request
    identifiers,        \* ChannelManager.identifiers[handle]
    calls,              \* calls[e][u]: where the coroutines awaiting on channel u stand
    written,            \* written[e][u]: the data of the write calls the channel queued
    assembled,          \* assembled[e][u]: the SDU payloads process_output built
    delivered,          \* delivered[e][u]: the SDUs handed to the channel's sink
    emitted,            \* emitted[e][u]: the 'open' and 'close' events the channel emitted
    nwrites,            \* nwrites[e]: write calls made at host e
    requests,           \* requests[e][k]: the k-th call on a resource guarded by a pending field
    sdp_client,         \* sdp_client[e]: the sdp.Client of host e and its search_services call
    sdp_server,         \* sdp_server[e]: the sdp.Server of host e
    connection_parameters_update_response,
                        \* ChannelManager.connection_parameters_update_response of host e
    device,             \* the fields of the Device object
    tasks,              \* tasks[t]: the coroutines of the Device's calls and tasks
    controller,         \* the controller behind the Device's host
    hci_commands,       \* hci_commands[name]: how many commands of the name the Device sent
    raised,             \* the exceptions the Device's event handlers raised
    advertisement_accumulators,
                        \* Device.advertisement_accumulators: address -> accumulator
    scanning_is_passive,\* Device.scanning_is_passive
    reports,            \* the advertising reports the Device received
    advertisements,     \* the 'advertisement' events the Device emitted
    service_records,    \* sdp.Server.service_records: handle -> service
    matching_services,  \* what Server.match_services returned, and for which pattern
    assembler,          \* the HCI_AclDataPacketAssembler of a connection
    acl_packets,        \* the HCI ACL data packets fed to the assembler
    acl_pdus,           \* the L2CAP PDUs the assembler handed to its callback
    local_link,         \* the fields of the LocalLink
    loop,               \* the callbacks call_soon has scheduled on the event loop
    link_calls,         \* the calls the controllers made on the LocalLink
    link_log,           \* the handlers of the controllers the LocalLink has run
    ertm,               \* ertm[e]: the channel of host e, in Enhanced Retransmission Mode
    ertm_link,          \* ertm_link[e]: the PDUs of that channel in flight towards host e
    ertm_written,       \* ertm_written[e]: the SDUs written to the channel of host e
    ertm_delivered,     \* ertm_delivered[e]: the SDUs the channel of host e gave its sink
    coc_manager,        \* a ChannelManager with several connections: its maps
    coc_calls,          \* the create_le_credit_based_channel calls made on it
    coc_link,           \* coc_link[h]: the signaling frames in flight on connection h
    sdp_multi_server,   \* an sdp.Server that clients on several connections reach
    sdp_multi_clients,  \* sdp_multi_clients[c]: the client of channel c and its search
    sdp_multi_link      \* sdp_multi_link[c]: the SDP PDUs in flight on channel c

l2capVars == <<transport, connected, link, chan, channels, le_coc_channels,
               le_coc_requests, identifiers, calls, written, assembled, delivered,
               emitted, nwrites>>

(* The state of the requests that a pending field guards *)
pendingVars == <<requests, sdp_client, sdp_server,
                 connection_parameters_update_response>>

(* The state of the Device and of its controller *)
deviceVars == <<device, tasks, controller, hci_commands, raised>>

(* The state of the Device's scanning *)
scanVars == <<advertisement_accumulators, scanning_is_passive, reports, advertisements>>

(* The state of the sdp Server's search for services *)
matchVars == <<service_records, matching_services>>

(* The state of the reassembly of ACL data *)
assemblerVars == <<assembler, acl_packets, acl_pdus>>

(* The state of the LocalLink and of the event loop *)
linkVars == <<local_link, loop, link_calls, link_log>>

(* The state of a pair of channels in Enhanced Retransmission Mode *)
ertmVars == <<ertm, ertm_link, ertm_written, ertm_delivered>>

(* The state of a ChannelManager that has more than one connection *)
cocVars == <<coc_manager, coc_calls, coc_link>>

(* The state of an sdp.Server with clients on several connections *)
sdpMultiVars == <<sdp_multi_server, sdp_multi_clients, sdp_multi_link>>

(* The state the later sections add *)
extraVars == <<ertmVars, cocVars, sdpMultiVars>>

moreVars == <<matchVars, assemblerVars, linkVars, extraVars>>

restVars == <<deviceVars, scanVars, moreVars>>

(* The state the channel manager's own steps leave alone *)
otherVars == <<pendingVars, restVars>>

vars == <<l2capVars, otherVars>>

---------------------------------------------------------------------------
(* Bounds of the model *)

MaxChannels == 2        \* channels the applications of both hosts create
MaxWrites == 2          \* write calls the applications of both hosts make
MaxDisconnects == 2     \* disconnect calls the applications of both hosts make

(* Program constants *)

L2CAP_SIGNALING_CID == 1
L2CAP_LE_SIGNALING_CID == 5
L2CAP_ACL_U_DYNAMIC_CID_RANGE_START == 64
L2CAP_ACL_U_DYNAMIC_CID_RANGE_END == 65535
L2CAP_LE_U_DYNAMIC_CID_RANGE_START == 64
L2CAP_LE_U_DYNAMIC_CID_RANGE_END == 127
L2CAP_LE_CREDIT_BASED_CONNECTION_MAX_CREDITS == 65535
L2CAP_LE_CREDIT_BASED_CONNECTION_MIN_MTU == 23
L2CAP_LE_CREDIT_BASED_CONNECTION_MAX_MTU == 65535
L2CAP_LE_CREDIT_BASED_CONNECTION_MIN_MPS == 23
L2CAP_LE_CREDIT_BASED_CONNECTION_MAX_MPS == 65533
L2CAP_LE_CREDIT_BASED_CONNECTION_DEFAULT_MTU == 2048
L2CAP_LE_CREDIT_BASED_CONNECTION_DEFAULT_MPS == 2048
L2CAP_MIN_BR_EDR_MTU == 48
L2CAP_DEFAULT_MTU == 2048

Endpoints == {1, 2}
Peer(e) == 3 - e

(* Optional[T]: None is the empty tuple, a value x is <<x>> *)
None == <<>>
Some(x) == <<x>>

Take(s, n) == SubSeq(s, 1, IF n < Len(s) THEN n ELSE Len(s))
Drop(s, n) == SubSeq(s, n + 1, Len(s))

RECURSIVE Flatten(_)
Flatten(ss) == IF ss = <<>> THEN <<>> ELSE Head(ss) \o Flatten(Tail(ss))

IsPrefix(s, t) == Len(s) <= Len(t) /\ SubSeq(t, 1, Len(s)) = s

Remove(f, k) == [x \in DOMAIN f \ {k} |-> f[x]]
Put(f, k, v) == (k :> v) @@ f
Empty == [x \in {} |-> 0]

(* struct.pack('<H', n) and struct.unpack_from('<H', b, 0) *)
pack_H(n) == <<n % 256, (n \div 256) % 256>>
unpack_H(b) == b[1] + 256 * b[2]

(* The bytes of the w-th write of n bytes at host e *)
Bytes(e, w, n) == [i \in 1..n |-> (100 * e + 40 * w + i) % 256]


---------------------------------------------------------------------------
(* Configuration: the servers registered on each host, and the inputs of   *)
(* the application calls.                                                  *)

(* LeCreditBasedChannelSpec.__post_init__ *)
LeCreditBasedChannelSpecValid(spec) ==
    /\ ~(spec.max_credits < 1
         \/ spec.max_credits > L2CAP_LE_CREDIT_BASED_CONNECTION_MAX_CREDITS)
    /\ ~(spec.mtu < L2CAP_LE_CREDIT_BASED_CONNECTION_MIN_MTU
         \/ spec.mtu > L2CAP_LE_CREDIT_BASED_CONNECTION_MAX_MTU)
    /\ ~(spec.mps < L2CAP_LE_CREDIT_BASED_CONNECTION_MIN_MPS
         \/ spec.mps > L2CAP_LE_CREDIT_BASED_CONNECTION_MAX_MPS)

(* ChannelManager.le_coc_servers after create_le_credit_based_server: host *)
(* 2 listens on LE PSM 0x80.                                               *)
le_coc_servers(e) ==
    IF e = 2
    THEN (128 :> [psm |-> 128, max_credits |-> 2, mtu |-> 30, mps |-> 23])
    ELSE Empty

(* The specs create_le_credit_based_channel is called with *)
LeClientSpecs ==
    { [psm |-> 128, max_credits |-> 1, mtu |-> 23, mps |-> 23],
      [psm |-> 129, max_credits |-> 1, mtu |-> 23, mps |-> 23],
      [psm |-> 128, max_credits |-> 0, mtu |-> 23, mps |-> 23] }

(* The hosts whose application opens channels *)
Clients == {1}

(* The sizes of the buffers the application writes to an LE channel *)
WriteLens == {0, 25}

(* ChannelManager.servers after create_classic_server: host 2 listens on   *)
(* PSM 1 (sdp.py, Server.register) with the default MTU.                   *)
servers(e) ==
    IF e = 2 THEN (1 :> [psm |-> 1, mtu |-> L2CAP_DEFAULT_MTU]) ELSE Empty

(* The specs create_classic_channel is called with *)
ClassicClientSpecs ==
    { [psm |-> 1, mtu |-> L2CAP_MIN_BR_EDR_MTU],
      [psm |-> 3, mtu |-> L2CAP_DEFAULT_MTU] }

(* The sizes of the buffers the application writes to a classic channel *)
ClassicWriteLens == {3}

---------------------------------------------------------------------------
(* LeCreditBasedChannel *)

LE_CONNECTION_SUCCESSFUL == 0
LE_CONNECTION_REFUSED_LE_PSM_NOT_SUPPORTED == 2
LE_CONNECTION_REFUSED_NO_RESOURCES_AVAILABLE == 4
LE_CONNECTION_REFUSED_SOURCE_CID_ALREADY_ALLOCATED == 10

(* LeCreditBasedChannel.__init__ *)
LeCreditBasedChannel(le_psm, source_cid, destination_cid, mtu, mps, credits, peer_mtu, peer_mps, peer_credits, is_connected) ==
    [ kind |-> "le",
      le_psm |-> le_psm,
      source_cid |-> source_cid,
      destination_cid |-> destination_cid,
      mtu |-> mtu,
      mps |-> mps,
      credits |-> credits,
      peer_mtu |-> peer_mtu,
      peer_mps |-> peer_mps,
      peer_credits |-> peer_credits,
      peer_max_credits |-> peer_credits,
      peer_credits_threshold |-> peer_credits \div 2,
      in_sdu |-> None,
      in_sdu_length |-> 0,
      out_queue |-> <<>>,
      out_sdu |-> None,
      sink |-> FALSE,
      connection_result |-> "None",
      disconnection_result |-> "None",
      drained |-> TRUE,
      state |-> IF is_connected THEN "CONNECTED" ELSE "INIT" ]

(* The PDUs a channel sends: send_pdu and send_control_frame *)
DataPdu(cid, data) == [cid |-> cid, payload |-> data]
LeControlPdu(frame) == [cid |-> L2CAP_LE_SIGNALING_CID, payload |-> frame]

L2CAP_LE_Flow_Control_Credit(identifier, cid, credits) ==
    [code |-> "L2CAP_LE_FLOW_CONTROL_CREDIT", identifier |-> identifier,
     cid |-> cid, credits |-> credits]

L2CAP_Disconnection_Request(identifier, destination_cid, source_cid) ==
    [code |-> "L2CAP_DISCONNECTION_REQUEST", identifier |-> identifier,
     destination_cid |-> destination_cid, source_cid |-> source_cid]

L2CAP_Disconnection_Response(identifier, destination_cid, source_cid) ==
    [code |-> "L2CAP_DISCONNECTION_RESPONSE", identifier |-> identifier,
     destination_cid |-> destination_cid, source_cid |-> source_cid]

(* A faulty write that puts the data at the head of the output queue *)
EnqueueFirst(queue, data) == <<data>> \o queue

(* LeCreditBasedChannel.write, line 1622: the data joins the output queue *)
Enqueue(queue, data) == Append(queue, data)

(* LeCreditBasedChannel.process_output, lines 1594-1605: the payload of   *)
(* the next SDU, taken from the head of the output queue up to peer_mtu.  *)
RECURSIVE AssembleSdu(_, _, _)
AssembleSdu(payload, queue, peer_mtu) ==
    IF queue # <<>> /\ Len(payload) < peer_mtu
    THEN LET chunk == Take(Head(queue), peer_mtu - Len(payload))
             rest == Drop(Head(queue), Len(chunk))
         IN  AssembleSdu(payload \o chunk,
                         IF Len(rest) = 0 THEN Tail(queue)
                         ELSE <<rest>> \o Tail(queue),
                         peer_mtu)
    ELSE [payload |-> payload, queue |-> queue]

(* A faulty sender that pays one credit for an SDU, not for a K-frame *)
SendPacketFree(c) ==
    LET packet == Take(c.out_sdu[1], c.peer_mps)
    IN  [ c |-> [c EXCEPT !.credits = IF Len(packet) = Len(c.out_sdu[1])
                                      THEN @ - 1 ELSE @,
                          !.out_sdu = IF Len(packet) = Len(c.out_sdu[1])
                                      THEN None
                                      ELSE Some(Drop(c.out_sdu[1], Len(packet)))],
          packet |-> packet ]

(* One K-frame of the current SDU: at most peer_mps bytes, one credit.    *)
SendPacket(c) ==
    LET packet == Take(c.out_sdu[1], c.peer_mps)
    IN  [ c |-> [c EXCEPT !.credits = @ - 1,
                          !.out_sdu = IF Len(packet) = Len(c.out_sdu[1])
                                      THEN None
                                      ELSE Some(Drop(c.out_sdu[1], Len(packet)))],
          packet |-> packet ]

(* LeCreditBasedChannel.process_output: r is the result so far, with the  *)
(* channel r.c, the K-frames sent r.out, the SDU payloads built r.sdus    *)
(* and r.raised when the assertion on an empty payload fails.             *)
RECURSIVE process_output_loop(_)
process_output_loop(r) ==
    IF r.c.credits > 0
    THEN IF r.c.out_sdu # None
         THEN LET s == SendPacket(r.c)
              IN  process_output_loop(
                      [r EXCEPT !.c = s.c,
                                !.out = Append(@, DataPdu(r.c.destination_cid, s.packet))])
         ELSE IF r.c.out_queue # <<>>
         THEN LET a == AssembleSdu(<<>>, r.c.out_queue, r.c.peer_mtu)
              IN  IF Len(a.payload) = 0
                  THEN [r EXCEPT !.c.out_queue = a.queue, !.raised = TRUE]
                  ELSE process_output_loop(
                          [r EXCEPT !.c.out_queue = a.queue,
                                    !.c.out_sdu = Some(pack_H(Len(a.payload)) \o a.payload),
                                    !.sdus = Append(@, a.payload)])
         ELSE [r EXCEPT !.c.drained = TRUE]
    ELSE r

process_output(c) ==
    process_output_loop([c |-> c, out |-> <<>>, sdus |-> <<>>, raised |-> FALSE])

(* LeCreditBasedChannel.flush_output *)
flush_output(c) == [c EXCEPT !.out_queue = <<>>, !.out_sdu = None]

(* A faulty on_credits that adds the credits and sends nothing *)
on_credits_idle(c, credits) ==
    [c |-> [c EXCEPT !.credits = @ + credits], out |-> <<>>, sdus |-> <<>>,
     raised |-> FALSE]

(* LeCreditBasedChannel.on_credits *)
on_credits(c, credits) == process_output([c EXCEPT !.credits = @ + credits])

(* LeCreditBasedChannel.on_pdu, lines 1442-1456: the peer's credits after *)
(* one more K-frame, and the credits to grant back (0: no frame is sent). *)
ManagePeerCredits(c) ==
    IF c.peer_credits = 0
    THEN [peer_credits |-> c.peer_credits, grant |-> 0]
    ELSE IF c.peer_credits - 1 <= c.peer_credits_threshold
         THEN [peer_credits |-> c.peer_max_credits,
               grant |-> c.peer_max_credits - (c.peer_credits - 1)]
         ELSE [peer_credits |-> c.peer_credits - 1, grant |-> 0]

(* A faulty reassembly that takes the SDU for complete as soon as it holds *)
(* sdu_length bytes, header included                                       *)
ReassembleShort(c, pdu) ==
    LET in_sdu == IF c.in_sdu = None THEN pdu ELSE c.in_sdu[1] \o pdu
        in_sdu_length == IF c.in_sdu_length = 0 /\ Len(in_sdu) >= 2
                         THEN unpack_H(in_sdu)
                         ELSE c.in_sdu_length
    IN  IF in_sdu_length = 0 \/ Len(in_sdu) < in_sdu_length
        THEN [ c |-> [c EXCEPT !.in_sdu = Some(in_sdu),
                               !.in_sdu_length = in_sdu_length],
               sdu |-> None, overflow |-> FALSE ]
        ELSE [ c |-> [c EXCEPT !.in_sdu = None, !.in_sdu_length = 0],
               sdu |-> Some(Drop(in_sdu, 2)),
               overflow |-> FALSE ]

(* LeCreditBasedChannel.on_pdu, lines 1458-1498: the reassembly of one    *)
(* K-frame into the channel c; sdu is what the sink is called with.       *)
Reassemble(c, pdu) ==
    LET in_sdu == IF c.in_sdu = None THEN pdu ELSE c.in_sdu[1] \o pdu
        in_sdu_length == IF c.in_sdu_length = 0 /\ Len(in_sdu) >= 2
                         THEN unpack_H(in_sdu)
                         ELSE c.in_sdu_length
    IN  IF in_sdu_length = 0 \/ Len(in_sdu) < 2 + in_sdu_length
        THEN [ c |-> [c EXCEPT !.in_sdu = Some(in_sdu),
                               !.in_sdu_length = in_sdu_length],
               sdu |-> None, overflow |-> FALSE ]
        ELSE [ c |-> [c EXCEPT !.in_sdu = None, !.in_sdu_length = 0],
               sdu |-> IF Len(in_sdu) # 2 + in_sdu_length THEN None
                       ELSE Some(Drop(in_sdu, 2)),
               overflow |-> Len(in_sdu) # 2 + in_sdu_length ]

(* LeCreditBasedChannel.on_pdu: identifier is what next_identifier would  *)
(* return; used says whether it was called.                                *)
le_on_pdu(c, pdu, identifier) ==
    IF ~c.sink
    THEN [c |-> c, out |-> <<>>, sdu |-> None, used |-> FALSE, dropped |-> TRUE,
          overflow |-> FALSE]
    ELSE LET m == ManagePeerCredits(c)
             r == Reassemble([c EXCEPT !.peer_credits = m.peer_credits], pdu)
         IN  [ c |-> r.c,
               out |-> IF m.grant > 0
                       THEN <<LeControlPdu(L2CAP_LE_Flow_Control_Credit(
                                  identifier, c.source_cid, m.grant))>>
                       ELSE <<>>,
               sdu |-> r.sdu,
               used |-> m.grant > 0,
               dropped |-> FALSE,
               overflow |-> r.overflow ]

(* LeCreditBasedChannel.on_connection_response *)
le_on_connection_response(c, response) ==
    IF c.connection_result = "None"
    THEN [c |-> c, result |-> "none"]
    ELSE IF response.result = LE_CONNECTION_SUCCESSFUL
    THEN [ c |-> [c EXCEPT !.destination_cid = response.destination_cid,
                           !.peer_mtu = response.mtu,
                           !.peer_mps = response.mps,
                           !.credits = response.initial_credits,
                           !.state = "CONNECTED",
                           !.connection_result = "None"],
           result |-> "ok" ]
    ELSE [ c |-> [c EXCEPT !.state = "CONNECTION_ERROR",
                           !.connection_result = "None"],
           result |-> "error" ]

(* LeCreditBasedChannel.abort *)
le_abort(c) == IF c.state = "CONNECTED" THEN [c EXCEPT !.state = "DISCONNECTED"] ELSE c

(* LeCreditBasedChannel.on_disconnection_request *)
le_on_disconnection_request(c, request) ==
    [ c |-> flush_output([c EXCEPT !.state = "DISCONNECTED"]),
      out |-> <<LeControlPdu(L2CAP_Disconnection_Response(
                    request.identifier, request.destination_cid, request.source_cid))>> ]

(* LeCreditBasedChannel.on_disconnection_response *)
le_on_disconnection_response(c, response) ==
    IF c.state # "DISCONNECTING"
    THEN c
    ELSE IF response.destination_cid # c.destination_cid
            \/ response.source_cid # c.source_cid
    THEN c
    ELSE [c EXCEPT !.state = "DISCONNECTED", !.disconnection_result = "None"]

---------------------------------------------------------------------------
(* ChannelManager *)

RECURSIVE FirstFree(_, _, _)
FirstFree(cid, last, used) ==
    IF cid > last THEN 0
    ELSE IF cid \notin used THEN cid
    ELSE FirstFree(cid + 1, last, used)

(* ChannelManager.find_free_br_edr_cid; 0 stands for OutOfResourcesError *)
find_free_br_edr_cid(used) ==
    FirstFree(L2CAP_ACL_U_DYNAMIC_CID_RANGE_START,
              L2CAP_ACL_U_DYNAMIC_CID_RANGE_END, used)

(* A faulty allocator that takes the first CID of the range, used or not *)
find_free_le_cid_first(used) == L2CAP_LE_U_DYNAMIC_CID_RANGE_START

(* ChannelManager.find_free_le_cid; 0 stands for OutOfResourcesError *)
find_free_le_cid(used) ==
    FirstFree(L2CAP_LE_U_DYNAMIC_CID_RANGE_START,
              L2CAP_LE_U_DYNAMIC_CID_RANGE_END, used)

(* ChannelManager.next_identifier *)
next_identifier(e) == (identifiers[e] + 1) % 256

(* ChannelManager.find_channel and find_le_coc_channel: 0 stands for None *)
find_channel(e, cid) == IF cid \in DOMAIN channels[e] THEN channels[e][cid] ELSE 0
find_le_coc_channel(e, cid) ==
    IF cid \in DOMAIN le_coc_channels[e] THEN le_coc_channels[e][cid] ELSE 0

L2CAP_Command_Reject(identifier) ==
    [code |-> "L2CAP_COMMAND_REJECT", identifier |-> identifier, reason |-> 0]

L2CAP_LE_Credit_Based_Connection_Request(identifier, le_psm, source_cid, mtu, mps,
                                         initial_credits) ==
    [code |-> "L2CAP_LE_CREDIT_BASED_CONNECTION_REQUEST", identifier |-> identifier,
     le_psm |-> le_psm, source_cid |-> source_cid, mtu |-> mtu, mps |-> mps,
     initial_credits |-> initial_credits]

L2CAP_LE_Credit_Based_Connection_Response(identifier, destination_cid, mtu, mps,
                                          initial_credits, result) ==
    [code |-> "L2CAP_LE_CREDIT_BASED_CONNECTION_RESPONSE", identifier |-> identifier,
     destination_cid |-> destination_cid, mtu |-> mtu, mps |-> mps,
     initial_credits |-> initial_credits, result |-> result]

(* Host.send_acl_sdu and LocalLink.send_acl_data: the PDUs out that host e *)
(* sends are queued towards its peer; pop says that host e has taken the   *)
(* PDU at the head of its own queue.                                       *)
LinkAfter(e, pop, out) ==
    [x \in Endpoints |->
        IF x = e THEN (IF pop THEN Tail(link[e]) ELSE link[e])
        ELSE IF connected[e] /\ connected[x] THEN link[x] \o out
        ELSE link[x]]

(* ChannelManager.on_pdu: the PDU at the head of the queue of host e is a  *)
(* signaling frame with this code, or a PDU for a dynamic channel.         *)
HeadIsControl(e, code) ==
    /\ connected[e]
    /\ link[e] # <<>>
    /\ Head(link[e]).cid \in {L2CAP_SIGNALING_CID, L2CAP_LE_SIGNALING_CID}
    /\ Head(link[e]).payload.code = code

HeadIsData(e) ==
    /\ connected[e]
    /\ link[e] # <<>>
    /\ Head(link[e]).cid \notin {L2CAP_SIGNALING_CID, L2CAP_LE_SIGNALING_CID}

NoCall == [connect |-> "none", disconnect |-> "none"]
(* What a channel has emitted and logged: its 'open' and 'close' events,   *)
(* the PDUs it dropped for want of a sink, the SDUs it dropped for their    *)
(* overflow, the K-frames it took when the                                 *)
(* peer had no credits, the Configure Requests it answered and the Success *)
(* responses it took to a Configure Request of its own.                    *)
NoEvents == [open |-> 0, close |-> 0, no_sink |-> 0, out_of_credits |-> 0, overflow |-> 0,
             config_sent |-> 0, config_answered |-> 0, config_accepted |-> 0]

(* A new channel object c of host e, with the state call of the coroutine  *)
(* that created it.                                                        *)
NewChannel(e, c, call) ==
    /\ chan' = [chan EXCEPT ![e] = Append(@, c)]
    /\ calls' = [calls EXCEPT ![e] = Append(@, call)]
    /\ written' = [written EXCEPT ![e] = Append(@, <<>>)]
    /\ assembled' = [assembled EXCEPT ![e] = Append(@, <<>>)]
    /\ delivered' = [delivered EXCEPT ![e] = Append(@, <<>>)]
    /\ emitted' = [emitted EXCEPT ![e] = Append(@, NoEvents)]

(* The channels the applications have created, the writes they have made *)
Created == Cardinality({p \in Endpoints \X (1..(2 * MaxChannels)) :
                            /\ p[2] \in DOMAIN calls[p[1]]
                            /\ calls[p[1]][p[2]].connect # "none"})
Writes == nwrites[1] + nwrites[2]
Disconnects == Cardinality({p \in Endpoints \X (1..(2 * MaxChannels)) :
                                /\ p[2] \in DOMAIN calls[p[1]]
                                /\ calls[p[1]][p[2]].disconnect # "none"})

(* The application holds channel u of host e: a server's handler was given *)
(* it, a client's create call has returned it.                             *)
AppHolds(e, u) ==
    /\ u \in DOMAIN chan[e]
    /\ calls[e][u].connect \in {"none", "returned"}

(* ChannelManager.create_le_credit_based_channel up to its await, with     *)
(* LeCreditBasedChannel.connect                                            *)
create_le_credit_based_channel(e, spec) ==
    /\ transport = "LE"
    /\ e \in Clients
    /\ connected[e]
    /\ Created < MaxChannels
    /\ LeCreditBasedChannelSpecValid(spec)
    /\ LET source_cid == find_free_le_cid(DOMAIN channels[e])
           u == Len(chan[e]) + 1
           identifier == next_identifier(e)
           channel == LeCreditBasedChannel(spec.psm, source_cid, 0, spec.mtu, spec.mps,
                                           0, 0, 0, spec.max_credits, FALSE)
           request == L2CAP_LE_Credit_Based_Connection_Request(
                          identifier, spec.psm, source_cid, spec.mtu, spec.mps,
                          channel.peer_credits)
       IN  /\ source_cid # 0
           /\ identifiers' = [identifiers EXCEPT ![e] = identifier]
           /\ IF identifier \in DOMAIN le_coc_requests[e]
              THEN \* connect raises InvalidStateError: the channel is dropped
                   /\ NewChannel(e, channel, [NoCall EXCEPT !.connect = "raised"])
                   /\ UNCHANGED <<channels, le_coc_requests, link>>
              ELSE /\ NewChannel(e, [channel EXCEPT !.state = "CONNECTING",
                                                    !.connection_result = "pending"],
                                 [NoCall EXCEPT !.connect = "awaiting"])
                   /\ channels' = [channels EXCEPT ![e] = Put(@, source_cid, u)]
                   /\ le_coc_requests' =
                          [le_coc_requests EXCEPT ![e] = Put(@, identifier, request)]
                   /\ link' = LinkAfter(e, FALSE, <<LeControlPdu(request)>>)
    /\ UNCHANGED <<transport, connected, le_coc_channels, nwrites>>
    /\ UNCHANGED otherVars

(* ChannelManager.create_le_credit_based_channel after its await: the      *)
(* channel is registered under its destination cid and returned, and the   *)
(* caller attaches its sink (apps/l2cap_bridge.py); or connect has raised  *)
(* and the channel is dropped from the dict the call took before it.       *)
create_le_credit_based_channel_return(e, u) ==
    /\ u \in DOMAIN chan[e]
    /\ chan[e][u].kind = "le"
    /\ calls[e][u].connect \in {"ok", "error"}
    /\ IF calls[e][u].connect = "ok"
       THEN /\ le_coc_channels' =
                   [le_coc_channels EXCEPT ![e] = Put(@, chan[e][u].destination_cid, u)]
            /\ chan' = [chan EXCEPT ![e][u].sink = TRUE]
            /\ calls' = [calls EXCEPT ![e][u].connect = "returned"]
            /\ UNCHANGED channels
       ELSE /\ channels' = [channels EXCEPT ![e] =
                   IF connected[e] THEN Remove(@, chan[e][u].source_cid) ELSE @]
            /\ calls' = [calls EXCEPT ![e][u].connect = "raised"]
            /\ UNCHANGED <<chan, le_coc_channels>>
    /\ UNCHANGED <<transport, connected, link, le_coc_requests, identifiers,
                   written, assembled, delivered, emitted, nwrites>>
    /\ UNCHANGED otherVars

(* ChannelManager.on_l2cap_le_credit_based_connection_request, with the    *)
(* server's handler attaching a sink to the new channel                    *)
on_l2cap_le_credit_based_connection_request(e) ==
    /\ HeadIsControl(e, "L2CAP_LE_CREDIT_BASED_CONNECTION_REQUEST")
    /\ LET cid == Head(link[e]).cid
           request == Head(link[e]).payload
           Reply(frame) == LinkAfter(e, TRUE, <<[cid |-> cid, payload |-> frame]>>)
           Refuse(mtu, mps, result) ==
               /\ link' = Reply(L2CAP_LE_Credit_Based_Connection_Response(
                                    request.identifier, 0, mtu, mps, 0, result))
               /\ UNCHANGED <<chan, channels, le_coc_channels, calls, written,
                              assembled, delivered, emitted>>
       IN  IF request.le_psm \in DOMAIN le_coc_servers(e)
           THEN LET server == le_coc_servers(e)[request.le_psm]
                    source_cid == find_free_le_cid(DOMAIN channels[e])
                    u == Len(chan[e]) + 1
                    channel == LeCreditBasedChannel(
                                   request.le_psm, source_cid, request.source_cid,
                                   server.mtu, server.mps, request.initial_credits,
                                   request.mtu, request.mps, server.max_credits, TRUE)
                IN  IF request.source_cid \in DOMAIN le_coc_channels[e]
                    THEN Refuse(server.mtu, server.mps,
                                LE_CONNECTION_REFUSED_SOURCE_CID_ALREADY_ALLOCATED)
                    ELSE IF source_cid = 0
                    THEN \* OutOfResourcesError: on_control_frame rejects the command
                         /\ link' = Reply(L2CAP_Command_Reject(request.identifier))
                         /\ UNCHANGED <<chan, channels, le_coc_channels, calls, written,
                                        assembled, delivered, emitted>>
                    ELSE /\ NewChannel(e, [channel EXCEPT !.sink = TRUE], NoCall)
                         /\ channels' = [channels EXCEPT ![e] = Put(@, source_cid, u)]
                         /\ le_coc_channels' =
                                [le_coc_channels EXCEPT ![e] = Put(@, request.source_cid, u)]
                         /\ link' = Reply(L2CAP_LE_Credit_Based_Connection_Response(
                                              request.identifier, source_cid, server.mtu,
                                              server.mps, server.max_credits,
                                              LE_CONNECTION_SUCCESSFUL))
           ELSE Refuse(L2CAP_LE_CREDIT_BASED_CONNECTION_DEFAULT_MTU,
                       L2CAP_LE_CREDIT_BASED_CONNECTION_DEFAULT_MPS,
                       LE_CONNECTION_REFUSED_LE_PSM_NOT_SUPPORTED)
    /\ UNCHANGED <<transport, connected, le_coc_requests, identifiers, nwrites>>
    /\ UNCHANGED otherVars

(* ChannelManager.on_l2cap_le_credit_based_connection_response *)
on_l2cap_le_credit_based_connection_response(e) ==
    /\ HeadIsControl(e, "L2CAP_LE_CREDIT_BASED_CONNECTION_RESPONSE")
    /\ LET response == Head(link[e]).payload
           known == response.identifier \in DOMAIN le_coc_requests[e]
           u == IF known
                THEN find_channel(e, le_coc_requests[e][response.identifier].source_cid)
                ELSE 0
           r == le_on_connection_response(chan[e][u], response)
       IN  /\ link' = LinkAfter(e, TRUE, <<>>)
           /\ le_coc_requests' = [le_coc_requests EXCEPT ![e] =
                  IF known THEN Remove(@, response.identifier) ELSE @]
           /\ IF u = 0
              THEN UNCHANGED <<chan, calls, emitted>>
              ELSE /\ chan' = [chan EXCEPT ![e][u] = r.c]
                   /\ calls' = [calls EXCEPT ![e][u].connect =
                          IF r.result = "none" THEN @ ELSE r.result]
                   /\ emitted' = [emitted EXCEPT ![e][u].open =
                          IF r.result = "ok" THEN @ + 1 ELSE @]
    /\ UNCHANGED <<transport, connected, channels, le_coc_channels, identifiers,
                   written, assembled, delivered, nwrites>>
    /\ UNCHANGED otherVars


(* LeCreditBasedChannel.write of n bytes by the application, on a channel  *)
(* it holds                                                                *)
le_write(e, u, n) ==
    /\ AppHolds(e, u)
    /\ chan[e][u].kind = "le"
    /\ Writes < MaxWrites
    /\ IF chan[e][u].state # "CONNECTED"
       THEN UNCHANGED <<chan, link, written, assembled, nwrites>>
       ELSE LET data == Bytes(e, nwrites[e] + 1, n)
                r == process_output([chan[e][u] EXCEPT !.out_queue = Enqueue(@, data),
                                                       !.drained = FALSE])
            IN  /\ chan' = [chan EXCEPT ![e][u] = r.c]
                /\ link' = LinkAfter(e, FALSE, r.out)
                /\ written' = [written EXCEPT ![e][u] = Append(@, data)]
                /\ assembled' = [assembled EXCEPT ![e][u] = @ \o r.sdus]
                /\ nwrites' = [nwrites EXCEPT ![e] = @ + 1]
    /\ UNCHANGED <<transport, connected, channels, le_coc_channels, le_coc_requests,
                   identifiers, calls, delivered, emitted>>
    /\ UNCHANGED otherVars

(* ChannelManager.on_pdu for a dynamic cid no channel is registered under *)
on_pdu_channel_not_found(e) ==
    /\ HeadIsData(e)
    /\ find_channel(e, Head(link[e]).cid) = 0
    /\ link' = LinkAfter(e, TRUE, <<>>)
    /\ UNCHANGED <<transport, connected, chan, channels, le_coc_channels,
                   le_coc_requests, identifiers, calls, written, assembled,
                   delivered, emitted, nwrites>>
    /\ UNCHANGED otherVars

(* ChannelManager.on_pdu handing a K-frame to LeCreditBasedChannel.on_pdu *)
le_on_pdu_action(e) ==
    /\ HeadIsData(e)
    /\ LET pdu == Head(link[e])
           u == find_channel(e, pdu.cid)
       IN  /\ u # 0
           /\ chan[e][u].kind = "le"
           /\ LET r == le_on_pdu(chan[e][u], pdu.payload, next_identifier(e))
              IN  /\ chan' = [chan EXCEPT ![e][u] = r.c]
                  /\ link' = LinkAfter(e, TRUE, r.out)
                  /\ identifiers' = [identifiers EXCEPT ![e] =
                         IF r.used THEN next_identifier(e) ELSE @]
                  /\ delivered' = [delivered EXCEPT ![e][u] =
                         IF r.sdu # None THEN Append(@, r.sdu[1]) ELSE @]
                  /\ emitted' = [emitted EXCEPT
                         ![e][u].no_sink = IF r.dropped THEN @ + 1 ELSE @,
                         ![e][u].overflow = IF r.overflow THEN @ + 1 ELSE @,
                         ![e][u].out_of_credits =
                             IF ~r.dropped /\ chan[e][u].peer_credits = 0
                             THEN @ + 1 ELSE @]
    /\ UNCHANGED <<transport, connected, channels, le_coc_channels, le_coc_requests,
                   calls, written, assembled, nwrites>>
    /\ UNCHANGED otherVars

(* ChannelManager.on_l2cap_le_flow_control_credit; when process_output     *)
(* raises, on_control_frame rejects the command                            *)
on_l2cap_le_flow_control_credit(e) ==
    /\ HeadIsControl(e, "L2CAP_LE_FLOW_CONTROL_CREDIT")
    /\ LET cid == Head(link[e]).cid
           credit == Head(link[e]).payload
           u == find_le_coc_channel(e, credit.cid)
           r == on_credits(chan[e][u], credit.credits)
       IN  IF u = 0
           THEN /\ link' = LinkAfter(e, TRUE, <<>>)
                /\ UNCHANGED <<chan, assembled>>
           ELSE /\ chan' = [chan EXCEPT ![e][u] = r.c]
                /\ assembled' = [assembled EXCEPT ![e][u] = @ \o r.sdus]
                /\ link' = LinkAfter(e, TRUE,
                       r.out \o (IF r.raised
                                 THEN <<[cid |-> cid,
                                         payload |-> L2CAP_Command_Reject(credit.identifier)]>>
                                 ELSE <<>>))
    /\ UNCHANGED <<transport, connected, channels, le_coc_channels, le_coc_requests,
                   identifiers, calls, written, delivered, emitted, nwrites>>
    /\ UNCHANGED otherVars

(* ChannelManager.on_l2cap_command_reject *)
on_l2cap_command_reject(e) ==
    /\ HeadIsControl(e, "L2CAP_COMMAND_REJECT")
    /\ link' = LinkAfter(e, TRUE, <<>>)
    /\ UNCHANGED <<transport, connected, chan, channels, le_coc_channels,
                   le_coc_requests, identifiers, calls, written, assembled,
                   delivered, emitted, nwrites>>
    /\ UNCHANGED otherVars

(* LeCreditBasedChannel.disconnect up to its await, called by the          *)
(* application on a connected channel it holds                             *)
le_disconnect(e, u) ==
    /\ AppHolds(e, u)
    /\ chan[e][u].kind = "le"
    /\ chan[e][u].state = "CONNECTED"
    /\ calls[e][u].disconnect = "none"
    /\ Disconnects < MaxDisconnects
    /\ LET identifier == next_identifier(e)
       IN  /\ chan' = [chan EXCEPT ![e][u] =
                  [flush_output(@) EXCEPT !.state = "DISCONNECTING",
                                          !.disconnection_result = "pending"]]
           /\ identifiers' = [identifiers EXCEPT ![e] = identifier]
           /\ link' = LinkAfter(e, FALSE,
                  <<LeControlPdu(L2CAP_Disconnection_Request(
                        identifier, chan[e][u].destination_cid, chan[e][u].source_cid))>>)
    /\ calls' = [calls EXCEPT ![e][u].disconnect = "awaiting"]
    /\ UNCHANGED <<transport, connected, channels, le_coc_channels, le_coc_requests,
                   written, assembled, delivered, emitted, nwrites>>
    /\ UNCHANGED otherVars


---------------------------------------------------------------------------
(* Requests guarded by a pending field: ClassicChannel.response, the       *)
(* pending_request of sdp.Client and the manager's                         *)
(* connection_parameters_update_response.                                  *)

SDP_PSM == 1
SDP_CONTINUATION_WATCHDOG == 64

(* Server.CONTINUATION_STATE, and the continuation state of a last part *)
CONTINUATION_STATE == <<1, 0>>
NoContinuation == <<0>>

(* A call of an application on resource kind on (of channel u), as the     *)
(* caller sees it: awaiting ("pending"), returned or raised.               *)
Call(on, u, status) == [on |-> on, u |-> u, status |-> status, result |-> None]

(* Future.set_result on the future that call k awaits *)
set_result(rs, k, value) ==
    [rs EXCEPT ![k].status = "resolved", ![k].result = Some(value)]

(* sdp.Client.__init__ *)
Client ==
    [ channel |-> 0,
      connecting |-> 0,            \* the channel Client.connect awaits
      mtu |-> L2CAP_MIN_BR_EDR_MTU,
      pending_request |-> None,
      pending_response |-> None,
      next_transaction_id |-> 0,
      call |-> 0,                  \* the search_services call that is running
      service_record_handle_list |-> <<>>,
      watchdog |-> 0 ]

(* sdp.Server.__init__; registered says that Server.register was called *)
Server(registered) ==
    [ registered |-> registered,
      channel |-> 0,
      current_response |-> None ]

(* sdp.Server.on_connection *)
on_connection(server, u) == [server EXCEPT !.channel = u]

(* The sink of channel u of host e is the on_pdu of the sdp Client or of   *)
(* the sdp Server.                                                         *)
SdpSink(e, u) ==
    \/ sdp_client[e].channel = u
    \/ /\ sdp_server[e].registered
       /\ calls[e][u].connect = "none"
       /\ chan[e][u].psm = SDP_PSM

---------------------------------------------------------------------------
(* ClassicChannel *)

CONNECTION_SUCCESSFUL == 0
CONNECTION_PENDING == 1
CONNECTION_REFUSED_PSM_NOT_SUPPORTED == 2
CONNECTION_REFUSED_NO_RESOURCES_AVAILABLE == 4
SUCCESS == 0
FAILURE_UNACCEPTABLE_PARAMETERS == 1
FAILURE_REJECTED == 2
FAILURE_UNKNOWN_OPTIONS == 3

(* ClassicChannel.__init__ *)
ClassicChannel(signaling_cid, psm, source_cid, mtu) ==
    [ kind |-> "classic",
      signaling_cid |-> signaling_cid,
      state |-> "CLOSED",
      mtu |-> mtu,
      peer_mtu |-> L2CAP_MIN_BR_EDR_MTU,
      psm |-> psm,
      source_cid |-> source_cid,
      destination_cid |-> 0,
      response |-> None,
      connection_result |-> "None",
      disconnection_result |-> "None",
      sink |-> FALSE ]

(* ClassicChannel.send_control_frame *)
ControlPdu(c, frame) == [cid |-> c.signaling_cid, payload |-> frame]

L2CAP_Connection_Request(identifier, psm, source_cid) ==
    [code |-> "L2CAP_CONNECTION_REQUEST", identifier |-> identifier,
     psm |-> psm, source_cid |-> source_cid]

L2CAP_Connection_Response(identifier, destination_cid, source_cid, result, status) ==
    [code |-> "L2CAP_CONNECTION_RESPONSE", identifier |-> identifier,
     destination_cid |-> destination_cid, source_cid |-> source_cid,
     result |-> result, status |-> status]

L2CAP_Configure_Request(identifier, destination_cid, flags, options) ==
    [code |-> "L2CAP_CONFIGURE_REQUEST", identifier |-> identifier,
     destination_cid |-> destination_cid, flags |-> flags, options |-> options]

L2CAP_Configure_Response(identifier, source_cid, flags, result, options) ==
    [code |-> "L2CAP_CONFIGURE_RESPONSE", identifier |-> identifier,
     source_cid |-> source_cid, flags |-> flags, result |-> result,
     options |-> options]

(* ClassicChannel.send_configure_request in basic mode: the MTU option *)
send_configure_request(c, identifier) ==
    ControlPdu(c, L2CAP_Configure_Request(identifier, c.destination_cid, 0,
                                          [mtu |-> c.mtu]))

(* ClassicChannel.on_connection_request *)
classic_on_connection_request(c, request) ==
    [ c |-> [c EXCEPT !.destination_cid = request.source_cid,
                      !.state = "WAIT_CONFIG"],
      out |-> <<ControlPdu(c, L2CAP_Connection_Response(
                    request.identifier, c.source_cid, request.source_cid,
                    CONNECTION_SUCCESSFUL, 0))>> ]

(* ClassicChannel.on_connection_response: identifier is what               *)
(* next_identifier would return, used says whether it was called, result   *)
(* what became of the pending connect.                                     *)
classic_on_connection_response(c, response, identifier) ==
    IF c.state # "WAIT_CONNECT_RSP"
    THEN [c |-> c, out |-> <<>>, used |-> FALSE, result |-> "none"]
    ELSE IF response.result = CONNECTION_SUCCESSFUL
    THEN LET d == [c EXCEPT !.destination_cid = response.destination_cid]
         IN  [ c |-> [d EXCEPT !.state = "WAIT_CONFIG_REQ_RSP"],
               out |-> <<send_configure_request(d, identifier)>>,
               used |-> TRUE, result |-> "none" ]
    ELSE IF response.result = CONNECTION_PENDING
    THEN [c |-> c, out |-> <<>>, used |-> FALSE, result |-> "none"]
    ELSE [ c |-> [c EXCEPT !.state = "CLOSED", !.connection_result = "None"],
           out |-> <<>>, used |-> FALSE, result |-> "error" ]

(* ClassicChannel.on_configure_request: answered says that the request was *)
(* answered, opened that the channel went to OPEN.                         *)
classic_on_configure_request(c, request, identifier) ==
    IF c.state \notin {"WAIT_CONFIG", "WAIT_CONFIG_REQ", "WAIT_CONFIG_REQ_RSP"}
    THEN [c |-> c, out |-> <<>>, used |-> FALSE, answered |-> FALSE, opened |-> FALSE]
    ELSE LET d == [c EXCEPT !.peer_mtu = request.options.mtu]
             response == ControlPdu(d, L2CAP_Configure_Response(
                             request.identifier, d.destination_cid, 0, SUCCESS,
                             request.options))
         IN  IF d.state = "WAIT_CONFIG"
             THEN [ c |-> [d EXCEPT !.state = "WAIT_CONFIG_RSP"],
                    out |-> <<response, send_configure_request(d, identifier)>>,
                    used |-> TRUE, answered |-> TRUE, opened |-> FALSE ]
             ELSE IF d.state = "WAIT_CONFIG_REQ"
             THEN [ c |-> [d EXCEPT !.state = "OPEN", !.connection_result = "None"],
                    out |-> <<response>>,
                    used |-> FALSE, answered |-> TRUE, opened |-> TRUE ]
             ELSE [ c |-> [d EXCEPT !.state = "WAIT_CONFIG_RSP"],
                    out |-> <<response>>,
                    used |-> FALSE, answered |-> TRUE, opened |-> FALSE ]

(* A faulty on_configure_response that opens the channel on the first      *)
(* Success response, before the peer's Configure Request has come          *)
classic_on_configure_response_eager(c, response, identifier) ==
    IF response.result = SUCCESS
         /\ c.state \in {"WAIT_CONFIG_REQ_RSP", "WAIT_CONFIG_RSP", "WAIT_CONTROL_IND"}
    THEN [ c |-> [c EXCEPT !.state = "OPEN", !.connection_result = "None"],
           out |-> <<>>, used |-> FALSE, opened |-> TRUE ]
    ELSE [c |-> c, out |-> <<>>, used |-> FALSE, opened |-> FALSE]

(* ClassicChannel.on_configure_response *)
classic_on_configure_response(c, response, identifier) ==
    IF response.result = SUCCESS
    THEN IF c.state = "WAIT_CONFIG_REQ_RSP"
         THEN [ c |-> [c EXCEPT !.state = "WAIT_CONFIG_REQ"],
                out |-> <<>>, used |-> FALSE, opened |-> FALSE ]
         ELSE IF c.state \in {"WAIT_CONFIG_RSP", "WAIT_CONTROL_IND"}
         THEN [ c |-> [c EXCEPT !.state = "OPEN", !.connection_result = "None"],
                out |-> <<>>, used |-> FALSE, opened |-> TRUE ]
         ELSE [c |-> c, out |-> <<>>, used |-> FALSE, opened |-> FALSE]
    ELSE IF response.result = FAILURE_UNACCEPTABLE_PARAMETERS
    THEN [ c |-> c,
           out |-> <<ControlPdu(c, L2CAP_Configure_Request(
                         identifier, c.destination_cid, 0, response.options))>>,
           used |-> TRUE, opened |-> FALSE ]
    ELSE [c |-> c, out |-> <<>>, used |-> FALSE, opened |-> FALSE]

(* ClassicChannel.on_disconnection_request: closed says that the channel   *)
(* went to CLOSED, emitted 'close' and called on_channel_closed.           *)
classic_on_disconnection_request(c, request) ==
    IF c.state \in {"OPEN", "WAIT_DISCONNECT"}
    THEN [ c |-> [c EXCEPT !.state = "CLOSED"],
           out |-> <<ControlPdu(c, L2CAP_Disconnection_Response(
                         request.identifier, request.destination_cid,
                         request.source_cid))>>,
           closed |-> TRUE ]
    ELSE [c |-> c, out |-> <<>>, closed |-> FALSE]

(* ClassicChannel.on_disconnection_response *)
classic_on_disconnection_response(c, response) ==
    IF c.state # "WAIT_DISCONNECT"
    THEN [c |-> c, closed |-> FALSE]
    ELSE IF response.destination_cid # c.destination_cid
            \/ response.source_cid # c.source_cid
    THEN [c |-> c, closed |-> FALSE]
    ELSE [ c |-> [c EXCEPT !.state = "CLOSED", !.disconnection_result = "None"],
           closed |-> TRUE ]

(* ClassicChannel.abort *)
classic_abort(c) == IF c.state = "OPEN" THEN [c EXCEPT !.state = "CLOSED"] ELSE c

(* A faulty on_channel_closed that leaves the channel in the map *)
on_channel_closed_kept(e, c) == channels[e]

(* ChannelManager.on_channel_closed: the channels map of host e after it *)
on_channel_closed(e, c) ==
    IF c.source_cid \in DOMAIN channels[e] THEN Remove(channels[e], c.source_cid)
    ELSE channels[e]


(* ChannelManager.create_classic_channel up to its await, with             *)
(* ClassicChannel.connect                                                  *)
ClassicChannelCreate(e, spec) ==
    /\ transport = "BR_EDR"
    /\ e \in Clients
    /\ connected[e]
    /\ Created < MaxChannels
    /\ LET source_cid == find_free_br_edr_cid(DOMAIN channels[e])
           u == Len(chan[e]) + 1
           identifier == next_identifier(e)
           channel == ClassicChannel(L2CAP_SIGNALING_CID, spec.psm, source_cid, spec.mtu)
       IN  /\ source_cid # 0
           /\ identifiers' = [identifiers EXCEPT ![e] = identifier]
           /\ NewChannel(e, [channel EXCEPT !.state = "WAIT_CONNECT_RSP",
                                            !.connection_result = "pending"],
                         [NoCall EXCEPT !.connect = "awaiting"])
           /\ channels' = [channels EXCEPT ![e] = Put(@, source_cid, u)]
           /\ link' = LinkAfter(e, FALSE,
                  <<ControlPdu(channel, L2CAP_Connection_Request(
                        identifier, spec.psm, source_cid))>>)
    /\ UNCHANGED <<transport, connected, le_coc_channels, le_coc_requests, nwrites>>

(* The call of an application that takes the channel for itself *)
create_classic_channel(e, spec) ==
    /\ ClassicChannelCreate(e, spec)
    /\ UNCHANGED otherVars

(* ChannelManager.create_classic_channel after its await: connect returns  *)
(* and the caller attaches its sink (sdp.py, Client.connect), or it raises *)
(* and the channel is dropped from the dict the call took before it.       *)
ClassicChannelCreated(e, u) ==
    /\ u \in DOMAIN chan[e]
    /\ chan[e][u].kind = "classic"
    /\ calls[e][u].connect \in {"ok", "error"}
    /\ IF calls[e][u].connect = "ok"
       THEN /\ chan' = [chan EXCEPT ![e][u].sink = TRUE,
                                    ![e][u].connection_result = "None"]
            /\ calls' = [calls EXCEPT ![e][u].connect = "returned"]
            /\ UNCHANGED channels
       ELSE /\ chan' = [chan EXCEPT ![e][u].connection_result = "None"]
            /\ channels' = [channels EXCEPT ![e] =
                   IF connected[e] THEN Remove(@, chan[e][u].source_cid) ELSE @]
            /\ calls' = [calls EXCEPT ![e][u].connect = "raised"]
    /\ UNCHANGED <<transport, connected, link, le_coc_channels, le_coc_requests,
                   identifiers, written, assembled, delivered, emitted, nwrites>>

(* The return to an application that called create_classic_channel itself *)
create_classic_channel_return(e, u) ==
    /\ sdp_client[e].connecting # u
    /\ ClassicChannelCreated(e, u)
    /\ UNCHANGED otherVars

(* ChannelManager.on_l2cap_connection_request, with the server's handler   *)
(* attaching a sink to the new channel (sdp.py, Server.on_connection)      *)
on_l2cap_connection_request(e) ==
    /\ HeadIsControl(e, "L2CAP_CONNECTION_REQUEST")
    /\ LET cid == Head(link[e]).cid
           request == Head(link[e]).payload
           Refuse(result) ==
               /\ link' = LinkAfter(e, TRUE,
                      <<[cid |-> cid,
                         payload |-> L2CAP_Connection_Response(
                             request.identifier, request.source_cid, 0, result, 0)]>>)
               /\ UNCHANGED <<chan, channels, calls, written, assembled, delivered,
                              emitted, sdp_server>>
       IN  IF request.psm \in DOMAIN servers(e)
           THEN LET server == servers(e)[request.psm]
                    source_cid == find_free_br_edr_cid(DOMAIN channels[e])
                    u == Len(chan[e]) + 1
                    channel == [ClassicChannel(cid, request.psm, source_cid, server.mtu)
                                    EXCEPT !.sink = TRUE]
                    r == classic_on_connection_request(channel, request)
                IN  IF source_cid = 0
                    THEN \* OutOfResourcesError: on_control_frame rejects the command
                         /\ link' = LinkAfter(e, TRUE,
                                <<[cid |-> cid,
                                   payload |-> L2CAP_Command_Reject(request.identifier)]>>)
                         /\ UNCHANGED <<chan, channels, calls, written, assembled,
                                        delivered, emitted, sdp_server>>
                    ELSE /\ NewChannel(e, r.c, NoCall)
                         /\ channels' = [channels EXCEPT ![e] = Put(@, source_cid, u)]
                         /\ link' = LinkAfter(e, TRUE, r.out)
                         /\ sdp_server' = [sdp_server EXCEPT ![e] =
                                IF @.registered THEN on_connection(@, u) ELSE @]
           ELSE Refuse(CONNECTION_REFUSED_PSM_NOT_SUPPORTED)
    /\ UNCHANGED <<transport, connected, le_coc_channels, le_coc_requests,
                   identifiers, nwrites>>
    /\ UNCHANGED <<requests, sdp_client, connection_parameters_update_response>>
    /\ UNCHANGED restVars

(* ChannelManager.on_l2cap_connection_response *)
on_l2cap_connection_response(e) ==
    /\ HeadIsControl(e, "L2CAP_CONNECTION_RESPONSE")
    /\ LET response == Head(link[e]).payload
           u == find_channel(e, response.source_cid)
           r == classic_on_connection_response(chan[e][u], response, next_identifier(e))
       IN  IF u = 0
           THEN /\ link' = LinkAfter(e, TRUE, <<>>)
                /\ UNCHANGED <<chan, identifiers, calls, emitted>>
           ELSE /\ chan' = [chan EXCEPT ![e][u] = r.c]
                /\ link' = LinkAfter(e, TRUE, r.out)
                /\ identifiers' = [identifiers EXCEPT ![e] =
                       IF r.used THEN next_identifier(e) ELSE @]
                /\ calls' = [calls EXCEPT ![e][u].connect =
                       IF r.result = "error" THEN "error" ELSE @]
                /\ emitted' = [emitted EXCEPT ![e][u].config_sent =
                       IF r.used THEN @ + 1 ELSE @]
    /\ UNCHANGED <<transport, connected, channels, le_coc_channels, le_coc_requests,
                   written, assembled, delivered, nwrites>>
    /\ UNCHANGED otherVars

(* ChannelManager.on_l2cap_configure_request *)
on_l2cap_configure_request(e) ==
    /\ HeadIsControl(e, "L2CAP_CONFIGURE_REQUEST")
    /\ LET request == Head(link[e]).payload
           u == find_channel(e, request.destination_cid)
           r == classic_on_configure_request(chan[e][u], request, next_identifier(e))
       IN  IF u = 0
           THEN /\ link' = LinkAfter(e, TRUE, <<>>)
                /\ UNCHANGED <<chan, identifiers, calls, emitted>>
           ELSE /\ chan' = [chan EXCEPT ![e][u] = r.c]
                /\ link' = LinkAfter(e, TRUE, r.out)
                /\ identifiers' = [identifiers EXCEPT ![e] =
                       IF r.used THEN next_identifier(e) ELSE @]
                /\ calls' = [calls EXCEPT ![e][u].connect =
                       IF r.opened /\ chan[e][u].connection_result # "None"
                       THEN "ok" ELSE @]
                /\ emitted' = [emitted EXCEPT
                       ![e][u].config_sent = IF r.used THEN @ + 1 ELSE @,
                       ![e][u].config_answered = IF r.answered THEN @ + 1 ELSE @,
                       ![e][u].open = IF r.opened THEN @ + 1 ELSE @]
    /\ UNCHANGED <<transport, connected, channels, le_coc_channels, le_coc_requests,
                   written, assembled, delivered, nwrites>>
    /\ UNCHANGED otherVars

(* ChannelManager.on_l2cap_configure_response *)
on_l2cap_configure_response(e) ==
    /\ HeadIsControl(e, "L2CAP_CONFIGURE_RESPONSE")
    /\ LET response == Head(link[e]).payload
           u == find_channel(e, response.source_cid)
           r == classic_on_configure_response(chan[e][u], response, next_identifier(e))
       IN  IF u = 0
           THEN /\ link' = LinkAfter(e, TRUE, <<>>)
                /\ UNCHANGED <<chan, identifiers, calls, emitted>>
           ELSE /\ chan' = [chan EXCEPT ![e][u] = r.c]
                /\ link' = LinkAfter(e, TRUE, r.out)
                /\ identifiers' = [identifiers EXCEPT ![e] =
                       IF r.used THEN next_identifier(e) ELSE @]
                /\ calls' = [calls EXCEPT ![e][u].connect =
                       IF r.opened /\ chan[e][u].connection_result # "None"
                       THEN "ok" ELSE @]
                /\ emitted' = [emitted EXCEPT
                       ![e][u].config_sent = IF r.used THEN @ + 1 ELSE @,
                       ![e][u].config_accepted =
                           IF response.result = SUCCESS
                              /\ emitted[e][u].config_sent > 0
                           THEN @ + 1 ELSE @,
                       ![e][u].open = IF r.opened THEN @ + 1 ELSE @]
    /\ UNCHANGED <<transport, connected, channels, le_coc_channels, le_coc_requests,
                   written, assembled, delivered, nwrites>>
    /\ UNCHANGED otherVars


(* ClassicChannel.write of n bytes in basic mode, by the application on a  *)
(* channel it holds                                                        *)
classic_write(e, u, n) ==
    /\ AppHolds(e, u)
    /\ chan[e][u].kind = "classic"
    /\ Writes < MaxWrites
    /\ nwrites' = [nwrites EXCEPT ![e] = @ + 1]
    /\ LET data == Bytes(e, nwrites[e] + 1, n)
       IN  /\ link' = LinkAfter(e, FALSE, <<DataPdu(chan[e][u].destination_cid, data)>>)
           /\ written' = [written EXCEPT ![e][u] = Append(@, data)]
    /\ UNCHANGED <<transport, connected, chan, channels, le_coc_channels,
                   le_coc_requests, identifiers, calls, assembled, delivered, emitted>>
    /\ UNCHANGED otherVars

(* ChannelManager.on_pdu handing a PDU to ClassicChannel.on_pdu, basic mode *)
classic_on_pdu(e) ==
    /\ HeadIsData(e)
    /\ LET pdu == Head(link[e])
           u == find_channel(e, pdu.cid)
       IN  /\ u # 0
           /\ chan[e][u].kind = "classic"
           /\ chan[e][u].response = None => ~SdpSink(e, u)
           /\ link' = LinkAfter(e, TRUE, <<>>)
           /\ IF chan[e][u].response # None
              THEN /\ chan' = [chan EXCEPT ![e][u].response = None]
                   /\ requests' = [requests EXCEPT ![e] =
                          set_result(@, chan[e][u].response[1], pdu.payload)]
                   /\ UNCHANGED <<delivered, emitted>>
              ELSE IF chan[e][u].sink
              THEN /\ delivered' = [delivered EXCEPT ![e][u] = Append(@, pdu.payload)]
                   /\ UNCHANGED <<chan, emitted, requests>>
              ELSE /\ emitted' = [emitted EXCEPT ![e][u].no_sink = @ + 1]
                   /\ UNCHANGED <<chan, delivered, requests>>
    /\ UNCHANGED <<transport, connected, channels, le_coc_channels, le_coc_requests,
                   identifiers, calls, written, assembled, nwrites>>
    /\ UNCHANGED <<sdp_client, sdp_server, connection_parameters_update_response>>
    /\ UNCHANGED restVars

(* ClassicChannel.disconnect up to its await, called by the application on *)
(* an open channel it holds                                                *)
classic_disconnect(e, u) ==
    /\ AppHolds(e, u)
    /\ chan[e][u].kind = "classic"
    /\ chan[e][u].state = "OPEN"
    /\ calls[e][u].disconnect = "none"
    /\ Disconnects < MaxDisconnects
    /\ LET identifier == next_identifier(e)
       IN  /\ chan' = [chan EXCEPT ![e][u].state = "WAIT_DISCONNECT",
                                   ![e][u].disconnection_result = "pending"]
           /\ identifiers' = [identifiers EXCEPT ![e] = identifier]
           /\ link' = LinkAfter(e, FALSE,
                  <<ControlPdu(chan[e][u], L2CAP_Disconnection_Request(
                        identifier, chan[e][u].destination_cid, chan[e][u].source_cid))>>)
    /\ calls' = [calls EXCEPT ![e][u].disconnect = "awaiting"]
    /\ UNCHANGED <<transport, connected, channels, le_coc_channels, le_coc_requests,
                   written, assembled, delivered, emitted, nwrites>>
    /\ UNCHANGED otherVars

(* ChannelManager.on_l2cap_disconnection_request, with the channel's       *)
(* on_disconnection_request                                                *)
on_l2cap_disconnection_request(e) ==
    /\ HeadIsControl(e, "L2CAP_DISCONNECTION_REQUEST")
    /\ LET request == Head(link[e]).payload
           u == find_channel(e, request.destination_cid)
           c == chan[e][u]
           l == le_on_disconnection_request(c, request)
           r == classic_on_disconnection_request(c, request)
       IN  IF u = 0
           THEN /\ link' = LinkAfter(e, TRUE, <<>>)
                /\ UNCHANGED <<chan, channels, emitted>>
           ELSE IF c.kind = "le"
           THEN /\ chan' = [chan EXCEPT ![e][u] = l.c]
                /\ link' = LinkAfter(e, TRUE, l.out)
                /\ emitted' = [emitted EXCEPT ![e][u].close = @ + 1]
                /\ UNCHANGED channels
           ELSE /\ chan' = [chan EXCEPT ![e][u] = r.c]
                /\ link' = LinkAfter(e, TRUE, r.out)
                /\ emitted' = [emitted EXCEPT ![e][u].close =
                       IF r.closed THEN @ + 1 ELSE @]
                /\ channels' = [channels EXCEPT ![e] =
                       IF r.closed THEN on_channel_closed(e, r.c) ELSE @]
    /\ UNCHANGED <<transport, connected, le_coc_channels, le_coc_requests,
                   identifiers, calls, written, assembled, delivered, nwrites>>
    /\ UNCHANGED otherVars

(* ChannelManager.on_l2cap_disconnection_response, with the channel's      *)
(* on_disconnection_response                                               *)
on_l2cap_disconnection_response(e) ==
    /\ HeadIsControl(e, "L2CAP_DISCONNECTION_RESPONSE")
    /\ LET response == Head(link[e]).payload
           u == find_channel(e, response.source_cid)
           c == chan[e][u]
           l == le_on_disconnection_response(c, response)
           r == classic_on_disconnection_response(c, response)
           d == IF c.kind = "le" THEN l ELSE r.c
           closed == IF c.kind = "le" THEN l.state # c.state ELSE r.closed
       IN  /\ link' = LinkAfter(e, TRUE, <<>>)
           /\ IF u = 0
              THEN UNCHANGED <<chan, channels, emitted, calls>>
              ELSE /\ chan' = [chan EXCEPT ![e][u] = d]
                   /\ emitted' = [emitted EXCEPT ![e][u].close =
                          IF closed THEN @ + 1 ELSE @]
                   /\ calls' = [calls EXCEPT ![e][u].disconnect =
                          IF closed /\ c.disconnection_result # "None"
                          THEN "ok" ELSE @]
                   /\ channels' = [channels EXCEPT ![e] =
                          IF closed /\ c.kind = "classic"
                          THEN on_channel_closed(e, d) ELSE @]
    /\ UNCHANGED <<transport, connected, le_coc_channels, le_coc_requests,
                   identifiers, written, assembled, delivered, nwrites>>
    /\ UNCHANGED otherVars

(* The await of disconnect returns to the application *)
disconnect_return(e, u) ==
    /\ u \in DOMAIN chan[e]
    /\ calls[e][u].disconnect = "ok"
    /\ calls' = [calls EXCEPT ![e][u].disconnect = "returned"]
    /\ UNCHANGED <<transport, connected, link, chan, channels, le_coc_channels,
                   le_coc_requests, identifiers, written, assembled, delivered,
                   emitted, nwrites>>
    /\ UNCHANGED otherVars

(* The channels host e's manager holds in its maps *)
Registered(e) ==
    {channels[e][k] : k \in DOMAIN channels[e]}
        \cup {le_coc_channels[e][k] : k \in DOMAIN le_coc_channels[e]}

(* A faulty abort that leaves the channel as it is *)
abort_idle(c) == c

(* abort of either class *)
abort(c) == IF c.kind = "le" THEN le_abort(c) ELSE classic_abort(c)

(* ChannelManager.on_disconnection: host e learns that the connection is   *)
(* gone.  What was in flight towards it is lost, and the connect calls     *)
(* that wait under abort_on('disconnection') are woken with an error.      *)
on_disconnection(e) ==
    /\ connected[e]
    /\ connected' = [connected EXCEPT ![e] = FALSE]
    /\ link' = [link EXCEPT ![e] = <<>>]
    /\ chan' = [chan EXCEPT ![e] =
           [u \in DOMAIN chan[e] |->
               IF u \in Registered(e) THEN abort(chan[e][u]) ELSE chan[e][u]]]
    /\ emitted' = [emitted EXCEPT ![e] =
           [u \in DOMAIN chan[e] |->
               IF u \in Registered(e) /\ abort(chan[e][u]) # chan[e][u]
               THEN [emitted[e][u] EXCEPT !.close = @ + 1]
               ELSE emitted[e][u]]]
    /\ channels' = [channels EXCEPT ![e] = Empty]
    /\ le_coc_channels' = [le_coc_channels EXCEPT ![e] = Empty]
    /\ identifiers' = [identifiers EXCEPT ![e] = 0]
    /\ calls' = [calls EXCEPT ![e] =
           [u \in DOMAIN chan[e] |->
               IF chan[e][u].kind = "classic" /\ calls[e][u].connect = "awaiting"
               THEN [calls[e][u] EXCEPT !.connect = "error"]
               ELSE calls[e][u]]]
    /\ UNCHANGED <<transport, le_coc_requests, written, assembled, delivered, nwrites>>
    /\ UNCHANGED otherVars

---------------------------------------------------------------------------
(* Device (src/bumble/device.py): one host's Device object, the coroutines *)
(* of its calls and tasks, and the controller it sends HCI commands to.    *)

(* The connection handles the controller gives out *)
Handles == {1}

(* AdvertisingType and its properties *)
AdvertisingTypes == {"UNDIRECTED_CONNECTABLE_SCANNABLE", "DIRECTED_CONNECTABLE_LOW_DUTY"}
has_data(t) == t \in {"UNDIRECTED_CONNECTABLE_SCANNABLE", "UNDIRECTED_SCANNABLE", "UNDIRECTED"}
is_scannable(t) == t \in {"UNDIRECTED_CONNECTABLE_SCANNABLE", "UNDIRECTED_SCANNABLE"}
is_directed(t) == t \in {"DIRECTED_CONNECTABLE_HIGH_DUTY", "DIRECTED_CONNECTABLE_LOW_DUTY"}

(* Device.__init__; le_read_phy is host.supports_command(HCI_LE_READ_PHY_COMMAND) *)
Device(le_read_phy) ==
    [connecting |-> FALSE,
     disconnecting |-> FALSE,
     advertising |-> FALSE,
     advertising_type |-> None,
     auto_restart_advertising |-> FALSE,
     connections |-> Empty,
     le_read_phy |-> le_read_phy]

(* The HCI commands the Device sends *)
CommandNames ==
    {"HCI_LE_Create_Connection", "HCI_LE_Create_Connection_Cancel", "HCI_LE_Read_PHY",
     "HCI_LE_Set_Advertising_Data", "HCI_LE_Set_Scan_Response_Data",
     "HCI_LE_Set_Advertising_Parameters", "HCI_LE_Set_Advertising_Enable",
     "HCI_Disconnect", "HCI_Authentication_Requested", "HCI_Set_Connection_Encryption",
     "HCI_Remote_Name_Request", "HCI_LE_Set_Scan_Parameters", "HCI_LE_Set_Scan_Enable"}

(* The frame of a coroutine: pc is where it stands, pending is the state   *)
(* of the future it created (pending_connection, pending_disconnection,    *)
(* ...), response the status of the HCI command it awaits once it is in,   *)
(* result what the coroutine returned or raised once pc is "done". A task  *)
(* that on_disconnection created has restart set, and the handle and the   *)
(* role of the connection that ended.                                      *)
Task(op) ==
    [op |-> op, pc |-> "start", handle |-> 0, role |-> "None", timeout |-> FALSE,
     advertising_type |-> None, target |-> None, auto_restart |-> FALSE,
     restart |-> FALSE, active |-> TRUE, pending |-> "none", response |-> None,
     timed_out |-> FALSE, result |-> "None"]

(* The controller: the commands it has not yet answered, whether it is     *)
(* creating an LE connection or advertising, the handles of its links and  *)
(* the handles it has given out so far, the scan type it was given (1 is   *)
(* active scanning) and whether it scans.                                  *)
Controller ==
    [commands |-> <<>>, create_connection |-> "idle", advertising |-> FALSE,
     links |-> {}, used |-> {}, events |-> 0, scan_type |-> 0, scanning |-> FALSE]

InitDevice(le_read_phy) ==
    /\ device = Device(le_read_phy)
    /\ tasks = <<>>
    /\ controller = Controller
    /\ hci_commands = [name \in CommandNames |-> 0]
    /\ raised = {}

(* Device.__init__, lines 661-663: no accumulator, active scanning *)
InitScan(passive) ==
    /\ advertisement_accumulators = Empty
    /\ scanning_is_passive = passive
    /\ reports = <<>>
    /\ advertisements = <<>>

(* sdp.Server.__init__ (sdp.py, line 1026): no service record *)
InitSearch ==
    /\ service_records = Empty
    /\ matching_services = None

(* HCI_AclDataPacketAssembler.__init__ *)
HCI_AclDataPacketAssembler == [current_data |-> None, l2cap_pdu_length |-> 0]

InitAssembler ==
    /\ assembler = HCI_AclDataPacketAssembler
    /\ acl_packets = <<>>
    /\ acl_pdus = <<>>

(* LocalLink.__init__ *)
LocalLink == [pending_connection |-> None, pending_classic_connection |-> None]

InitLink ==
    /\ local_link = LocalLink
    /\ loop = <<>>
    /\ link_calls = <<>>
    /\ link_log = <<>>

(* ClassicChannel.__init__, then on_configure_request with the option      *)
(* RETRANSMISSION_AND_FLOW_CONTROL of the peer: the mode, the window and   *)
(* the MPS are the peer's (l2cap.py, lines 1180-1191)                      *)
ErtmChannel(tx_window_size, peer_mps) ==
    [transmission_mode |-> "ENHANCED_RETRANSMISSION",
     tx_window_size |-> tx_window_size,
     peer_mps |-> peer_mps,
     rx_credits_threshold |-> tx_window_size \div 2,
     pending_sdu |-> <<>>,
     tx_seq |-> 0,
     req_seq |-> 0,
     last_acked_seq |-> 0]

InitErtm(tx_window_size, peer_mps) ==
    /\ ertm = [e \in Endpoints |-> ErtmChannel(tx_window_size, peer_mps)]
    /\ ertm_link = [e \in Endpoints |-> <<>>]
    /\ ertm_written = [e \in Endpoints |-> <<>>]
    /\ ertm_delivered = [e \in Endpoints |-> <<>>]

(* The connections of the manager, by their handles *)
CocHandles == {1, 2}

(* ChannelManager.__init__: identifiers and channels are filled by         *)
(* setdefault, which gives 0 and an empty dict for a new handle            *)
InitCoc ==
    /\ coc_manager = [identifiers |-> [h \in CocHandles |-> 0],
                      le_coc_requests |-> Empty,
                      channels |-> [h \in CocHandles |-> Empty]]
    /\ coc_calls = <<>>
    /\ coc_link = [h \in CocHandles |-> [to_peer |-> <<>>, to_host |-> <<>>]]

(* The channels to the SDP PSM, one on each connection of the server *)
SdpChannels == {1, 2}

(* sdp.Server.__init__, and clients that have not connected *)
InitSdpMulti ==
    /\ sdp_multi_server = Server(TRUE)
    /\ sdp_multi_clients = [c \in SdpChannels |->
                               [status |-> "closed", service_record_handle_list |-> <<>>]]
    /\ sdp_multi_link = [c \in SdpChannels |-> [to_server |-> <<>>, to_client |-> <<>>]]

InitExtra == InitErtm(2, 3) /\ InitCoc /\ InitSdpMulti

InitMore == InitSearch /\ InitAssembler /\ InitLink /\ InitExtra

InitRest == InitDevice(FALSE) /\ InitScan(FALSE) /\ InitMore

---------------------------------------------------------------------------
(* The system *)

InitL2cap(t) ==
    /\ transport = t
    /\ connected = [e \in Endpoints |-> TRUE]
    /\ link = [e \in Endpoints |-> <<>>]
    /\ chan = [e \in Endpoints |-> <<>>]
    /\ channels = [e \in Endpoints |-> Empty]
    /\ le_coc_channels = [e \in Endpoints |-> Empty]
    /\ le_coc_requests = [e \in Endpoints |-> Empty]
    /\ identifiers = [e \in Endpoints |-> 0]
    /\ calls = [e \in Endpoints |-> <<>>]
    /\ written = [e \in Endpoints |-> <<>>]
    /\ assembled = [e \in Endpoints |-> <<>>]
    /\ delivered = [e \in Endpoints |-> <<>>]
    /\ emitted = [e \in Endpoints |-> <<>>]
    /\ nwrites = [e \in Endpoints |-> 0]

(* No request made; sdp says that host 2 has registered the sdp Server on  *)
(* SDP_PSM, and not an application's handler.                              *)
InitPending(sdp) ==
    /\ requests = [e \in Endpoints |-> <<>>]
    /\ sdp_client = [e \in Endpoints |-> Client]
    /\ sdp_server = [e \in Endpoints |-> Server(sdp /\ e = 2)]
    /\ connection_parameters_update_response = [e \in Endpoints |-> None]

InitWith(t) ==
    /\ InitL2cap(t)
    /\ InitPending(FALSE)
    /\ InitRest

InitLe == InitWith("LE")
InitClassic == InitWith("BR_EDR")

(* The steps of both transports *)
NextShared ==
    \/ \E e \in Endpoints : on_l2cap_disconnection_request(e)
    \/ \E e \in Endpoints : on_l2cap_disconnection_response(e)
    \/ \E e \in Endpoints, u \in 1..(2 * MaxChannels) : disconnect_return(e, u)
    \/ \E e \in Endpoints : on_disconnection(e)

NextLeOnly ==
    \/ \E e \in Endpoints, spec \in LeClientSpecs : create_le_credit_based_channel(e, spec)
    \/ \E e \in Endpoints, u \in 1..(2 * MaxChannels) : create_le_credit_based_channel_return(e, u)
    \/ \E e \in Endpoints : on_l2cap_le_credit_based_connection_request(e)
    \/ \E e \in Endpoints : on_l2cap_le_credit_based_connection_response(e)
    \/ \E e \in Endpoints, u \in 1..(2 * MaxChannels), n \in WriteLens : le_write(e, u, n)
    \/ \E e \in Endpoints : le_on_pdu_action(e)
    \/ \E e \in Endpoints : on_l2cap_le_flow_control_credit(e)
    \/ \E e \in Endpoints : on_l2cap_command_reject(e)
    \/ \E e \in Endpoints, u \in 1..(2 * MaxChannels) : le_disconnect(e, u)

NextLe == NextLeOnly \/ NextShared

SpecLe == InitLe /\ [][NextLe]_vars


NextClassicOnly ==
    \/ \E e \in Endpoints, spec \in ClassicClientSpecs : create_classic_channel(e, spec)
    \/ \E e \in Endpoints, u \in 1..(2 * MaxChannels) : create_classic_channel_return(e, u)
    \/ \E e \in Endpoints : on_l2cap_connection_request(e)
    \/ \E e \in Endpoints : on_l2cap_connection_response(e)
    \/ \E e \in Endpoints : on_l2cap_configure_request(e)
    \/ \E e \in Endpoints : on_l2cap_configure_response(e)
    \/ \E e \in Endpoints, u \in 1..(2 * MaxChannels), n \in ClassicWriteLens :
           classic_write(e, u, n)
    \/ \E e \in Endpoints : classic_on_pdu(e)
    \/ \E e \in Endpoints : on_pdu_channel_not_found(e)
    \/ \E e \in Endpoints, u \in 1..(2 * MaxChannels) : classic_disconnect(e, u)

NextClassic == NextClassicOnly \/ NextShared

SpecClassic == InitClassic /\ [][NextClassic]_vars


(* Both transports *)
Init == \E t \in {"LE", "BR_EDR"} : InitWith(t)
Next == NextLeOnly \/ NextClassicOnly \/ NextShared
Spec == Init /\ [][Next]_vars

---------------------------------------------------------------------------
(* A peer that is not this implementation: it may grant credits of its own *)
(* accord.  An LE Flow Control Credit frame for a channel of host e        *)
(* arrives from it, as long as the channel's credits are within the        *)
(* protocol's limit.                                                       *)

PeerCredits == {65535}

IsCredit(pdu) ==
    IF pdu.cid = L2CAP_LE_SIGNALING_CID
    THEN pdu.payload.code = "L2CAP_LE_FLOW_CONTROL_CREDIT"
    ELSE FALSE

peer_grants_credits(e, cid, credits) ==
    /\ connected[e]
    /\ cid \in DOMAIN le_coc_channels[e]
    /\ chan[e][le_coc_channels[e][cid]].credits
           <= L2CAP_LE_CREDIT_BASED_CONNECTION_MAX_CREDITS
    /\ \A i \in DOMAIN link[e] : ~IsCredit(link[e][i])
    /\ link' = [link EXCEPT ![e] =
           Append(@, LeControlPdu(L2CAP_LE_Flow_Control_Credit(0, cid, credits)))]
    /\ UNCHANGED <<transport, connected, chan, channels, le_coc_channels,
                   le_coc_requests, identifiers, calls, written, assembled,
                   delivered, emitted, nwrites>>
    /\ UNCHANGED otherVars

NextLePeer ==
    \/ \E e \in Endpoints, spec \in LeClientSpecs : create_le_credit_based_channel(e, spec)
    \/ \E e \in Endpoints, u \in 1..(2 * MaxChannels) : create_le_credit_based_channel_return(e, u)
    \/ \E e \in Endpoints : on_l2cap_le_credit_based_connection_request(e)
    \/ \E e \in Endpoints : on_l2cap_le_credit_based_connection_response(e)
    \/ \E e \in Endpoints, u \in 1..(2 * MaxChannels), n \in WriteLens : le_write(e, u, n)
    \/ \E e \in Endpoints : le_on_pdu_action(e)
    \/ \E e \in Endpoints : on_l2cap_le_flow_control_credit(e)
    \/ \E e \in Endpoints : on_l2cap_command_reject(e)
    \/ \E e \in Endpoints, cid \in L2CAP_LE_U_DYNAMIC_CID_RANGE_START ..
                                   L2CAP_LE_U_DYNAMIC_CID_RANGE_START + MaxChannels,
          credits \in PeerCredits : peer_grants_credits(e, cid, credits)

SpecLePeer == InitLe /\ [][NextLePeer]_vars


(* A peer whose K-frames are not those of this implementation *)

MaxPeerFrames == 2      \* K-frames the peer sends of its own accord

(* The payloads of the peer's K-frames: the start of an SDU that announces *)
(* 2 bytes and brings 1 of them, and 1 or 2 bytes more                     *)
PeerFrames == {<<2, 0, 7>>, <<7>>, <<7, 7>>}

(* The peer of host e sends a K-frame to the channel u of host e; nwrites  *)
(* counts it as a write of the peer.                                       *)
peer_sends_k_frame(e, u, payload) ==
    /\ connected[e]
    /\ u \in DOMAIN chan[e]
    /\ chan[e][u].kind = "le"
    /\ chan[e][u].state = "CONNECTED"
    /\ nwrites[Peer(e)] < MaxPeerFrames
    /\ nwrites' = [nwrites EXCEPT ![Peer(e)] = @ + 1]
    /\ link' = [link EXCEPT ![e] =
           Append(@, [cid |-> chan[e][u].source_cid, payload |-> payload])]
    /\ UNCHANGED <<transport, connected, chan, channels, le_coc_channels,
                   le_coc_requests, identifiers, calls, written, assembled,
                   delivered, emitted>>
    /\ UNCHANGED otherVars

NextLeFrames ==
    \/ \E e \in Endpoints, spec \in LeClientSpecs : create_le_credit_based_channel(e, spec)
    \/ \E e \in Endpoints, u \in 1..(2 * MaxChannels) : create_le_credit_based_channel_return(e, u)
    \/ \E e \in Endpoints : on_l2cap_le_credit_based_connection_request(e)
    \/ \E e \in Endpoints : on_l2cap_le_credit_based_connection_response(e)
    \/ \E e \in Endpoints : le_on_pdu_action(e)
    \/ \E e \in Endpoints : on_l2cap_le_flow_control_credit(e)
    \/ \E e \in Endpoints, u \in 1..(2 * MaxChannels), payload \in PeerFrames : peer_sends_k_frame(e, u, payload)

SpecLeFrames == InitLe /\ [][NextLeFrames]_vars

---------------------------------------------------------------------------
(* A peer that does not accept the configuration: host e stands for it     *)
(* when the Configure Request at the head of its queue is answered with a  *)
(* Configure Response of result Unacceptable Parameters, which suggests    *)
(* options (here the ones requested).  The channel of the requester has    *)
(* sent at most MaxRefusals Configure Requests so far.                     *)

MaxRefusals == 9

peer_refuses_configure_request(e) ==
    /\ HeadIsControl(e, "L2CAP_CONFIGURE_REQUEST")
    /\ LET request == Head(link[e]).payload
           u == find_channel(e, request.destination_cid)
           v == find_channel(Peer(e), chan[e][u].destination_cid)
       IN  /\ u # 0
           /\ v # 0
           /\ emitted[Peer(e)][v].config_sent <= MaxRefusals
           /\ link' = LinkAfter(e, TRUE, <<ControlPdu(chan[e][u],
                          L2CAP_Configure_Response(
                              request.identifier, chan[e][u].destination_cid, 0,
                              FAILURE_UNACCEPTABLE_PARAMETERS, request.options))>>)
    /\ UNCHANGED <<transport, connected, chan, channels, le_coc_channels,
                   le_coc_requests, identifiers, calls, emitted, written,
                   assembled, delivered, nwrites>>
    /\ UNCHANGED otherVars

NextConfigure ==
    \/ \E e \in Endpoints, spec \in ClassicClientSpecs : create_classic_channel(e, spec)
    \/ \E e \in Endpoints, u \in 1..(2 * MaxChannels) : create_classic_channel_return(e, u)
    \/ \E e \in Endpoints : on_l2cap_connection_request(e)
    \/ \E e \in Endpoints : on_l2cap_connection_response(e)
    \/ \E e \in Endpoints : on_l2cap_configure_request(e)
    \/ \E e \in Endpoints : on_l2cap_configure_response(e)
    \/ \E e \in Endpoints : peer_refuses_configure_request(e)

SpecConfigure == InitClassic /\ [][NextConfigure]_vars

---------------------------------------------------------------------------
(* A peer that rejects the configuration: host e stands for it when the    *)
(* Configure Request at the head of its queue is answered with a Configure *)
(* Response whose result is a failure other than Unacceptable Parameters.  *)

ConfigureFailures == {FAILURE_REJECTED, FAILURE_UNKNOWN_OPTIONS}

peer_rejects_configure_request(e, result) ==
    /\ HeadIsControl(e, "L2CAP_CONFIGURE_REQUEST")
    /\ LET request == Head(link[e]).payload
           u == find_channel(e, request.destination_cid)
       IN  /\ u # 0
           /\ link' = LinkAfter(e, TRUE, <<ControlPdu(chan[e][u],
                          L2CAP_Configure_Response(
                              request.identifier, chan[e][u].destination_cid, 0,
                              result, request.options))>>)
    /\ UNCHANGED <<transport, connected, chan, channels, le_coc_channels,
                   le_coc_requests, identifiers, calls, emitted, written,
                   assembled, delivered, nwrites>>
    /\ UNCHANGED otherVars

NextRejected ==
    \/ \E e \in Endpoints, spec \in ClassicClientSpecs : create_classic_channel(e, spec)
    \/ \E e \in Endpoints, u \in 1..(2 * MaxChannels) : create_classic_channel_return(e, u)
    \/ \E e \in Endpoints : on_l2cap_connection_request(e)
    \/ \E e \in Endpoints : on_l2cap_connection_response(e)
    \/ \E e \in Endpoints : on_l2cap_configure_request(e)
    \/ \E e \in Endpoints : on_l2cap_configure_response(e)
    \/ \E e \in Endpoints, result \in ConfigureFailures : peer_rejects_configure_request(e, result)

SpecRejected == InitClassic /\ [][NextRejected]_vars

---------------------------------------------------------------------------
(* A peer that sends signaling frames of its own: requests that name a     *)
(* channel by its cid, a frame whose command code has no class, and a      *)
(* frame cut after its first byte.                                         *)

MaxPeerRequests == 1

(* The cids the peer's requests name *)
PeerCids == {64}

PeerControlFrames ==
    {L2CAP_Configure_Request(7, cid, 0, [mtu |-> L2CAP_MIN_BR_EDR_MTU]) : cid \in PeerCids}
        \cup {L2CAP_Disconnection_Request(7, cid, 64) : cid \in PeerCids}
        \cup {[code |-> "L2CAP_CREATE_CHANNEL_REQUEST", identifier |-> 7],
              [code |-> "TRUNCATED", identifier |-> 7]}

(* L2CAP_Control_Frame.from_bytes of a frame of at least 2 bytes: a code   *)
(* without a registered class gives a plain L2CAP_Control_Frame, whose     *)
(* identifier __init__ has set to 0 and nothing reads from the bytes.      *)
from_bytes(pdu) ==
    IF pdu.code = "L2CAP_CREATE_CHANNEL_REQUEST"
    THEN [code |-> pdu.code, identifier |-> 0]
    ELSE pdu

(* The peer of host e sends the signaling frame; nwrites counts it as a    *)
(* write of the peer.                                                      *)
peer_sends_control_frame(e, frame) ==
    /\ connected[e]
    /\ nwrites[Peer(e)] < MaxPeerRequests
    /\ nwrites' = [nwrites EXCEPT ![Peer(e)] = @ + 1]
    /\ link' = [link EXCEPT ![e] =
           Append(@, [cid |-> L2CAP_SIGNALING_CID, payload |-> frame])]
    /\ UNCHANGED <<transport, connected, chan, channels, le_coc_channels,
                   le_coc_requests, identifiers, calls, written, assembled,
                   delivered, emitted>>
    /\ UNCHANGED otherVars

(* ChannelManager.on_control_frame when the manager has no handler for the *)
(* frame: a Command Reject with the identifier of the parsed frame         *)
on_control_frame_not_handled(e) ==
    /\ HeadIsControl(e, "L2CAP_CREATE_CHANNEL_REQUEST")
    /\ LET cid == Head(link[e]).cid
           control_frame == from_bytes(Head(link[e]).payload)
       IN  link' = LinkAfter(e, TRUE,
               <<[cid |-> cid, payload |-> L2CAP_Command_Reject(control_frame.identifier)]>>)
    /\ UNCHANGED <<transport, connected, chan, channels, le_coc_channels,
                   le_coc_requests, identifiers, calls, written, assembled,
                   delivered, emitted, nwrites>>
    /\ UNCHANGED otherVars

(* ChannelManager.on_pdu for a signaling frame of 1 byte: from_bytes       *)
(* raises IndexError at pdu[1], outside the try of on_control_frame, and   *)
(* the exception leaves on_pdu.  The handle stands for the host.           *)
on_pdu_truncated(e) ==
    /\ HeadIsControl(e, "TRUNCATED")
    /\ link' = LinkAfter(e, TRUE, <<>>)
    /\ raised' = raised \cup {[handler |-> "on_pdu", handle |-> e, error |-> "IndexError"]}
    /\ UNCHANGED <<transport, connected, chan, channels, le_coc_channels,
                   le_coc_requests, identifiers, calls, written, assembled,
                   delivered, emitted, nwrites>>
    /\ UNCHANGED <<pendingVars, scanVars, moreVars, device, tasks, controller, hci_commands>>

NextSignaling ==
    \/ \E e \in Endpoints, spec \in ClassicClientSpecs : create_classic_channel(e, spec)
    \/ \E e \in Endpoints, u \in 1..(2 * MaxChannels) : create_classic_channel_return(e, u)
    \/ \E e \in Endpoints : on_l2cap_connection_request(e)
    \/ \E e \in Endpoints : on_l2cap_connection_response(e)
    \/ \E e \in Endpoints : on_l2cap_configure_request(e)
    \/ \E e \in Endpoints : on_l2cap_configure_response(e)
    \/ \E e \in Endpoints : on_l2cap_disconnection_request(e)
    \/ \E e \in Endpoints, frame \in PeerControlFrames : peer_sends_control_frame(e, frame)
    \/ \E e \in Endpoints : on_control_frame_not_handled(e)
    \/ \E e \in Endpoints : on_pdu_truncated(e)

SpecSignaling == InitClassic /\ [][NextSignaling]_vars

---------------------------------------------------------------------------
(* Requests guarded by a pending field: the calls and their responses *)

MaxRequests == 3            \* calls on guarded resources the applications make
MaxServiceRecords == 10     \* service records of the sdp Server

L2CAP_CONNECTION_PARAMETERS_ACCEPTED_RESULT == 0
L2CAP_CONNECTION_PARAMETERS_REJECTED_RESULT == 1

Requests == Len(requests[1]) + Len(requests[2])

(* The channel an application asks for when it will send requests on it *)
RequestClientSpecs == {[psm |-> SDP_PSM, mtu |-> L2CAP_DEFAULT_MTU]}

(* Connection.role at host e *)
role(e) == IF e \in Clients THEN "BT_CENTRAL_ROLE" ELSE "BT_PERIPHERAL_ROLE"

SDP_ServiceSearchRequest(transaction_id, maximum_service_record_count, continuation_state) ==
    [pdu_id |-> "SDP_SERVICE_SEARCH_REQUEST", transaction_id |-> transaction_id,
     maximum_service_record_count |-> maximum_service_record_count,
     continuation_state |-> continuation_state]

SDP_ServiceSearchResponse(transaction_id, total_service_record_count, service_record_handle_list, continuation_state) ==
    [pdu_id |-> "SDP_SERVICE_SEARCH_RESPONSE", transaction_id |-> transaction_id,
     total_service_record_count |-> total_service_record_count,
     service_record_handle_list |-> service_record_handle_list,
     continuation_state |-> continuation_state]

SDP_ErrorResponse(transaction_id, error_code) ==
    [pdu_id |-> "SDP_ERROR_RESPONSE", transaction_id |-> transaction_id,
     error_code |-> error_code]

(* SDP_PDU.RESPONSE_PDU_IDS *)
RESPONSE_PDU_IDS(pdu_id) ==
    IF pdu_id = "SDP_SERVICE_SEARCH_REQUEST" THEN "SDP_SERVICE_SEARCH_RESPONSE"
    ELSE "None"

(* A faulty send_request that does not look at the response it waits for *)
classic_send_request_unguarded(c, k, request) ==
    IF c.state # "OPEN"
    THEN [c |-> c, out |-> <<>>, raised |-> "InvalidStateError"]
    ELSE [c |-> [c EXCEPT !.response = Some(k)],
          out |-> <<DataPdu(c.destination_cid, request)>>,
          raised |-> "None"]

(* ClassicChannel.send_request up to its await; k names the future made *)
classic_send_request(c, k, request) ==
    IF c.response # None
    THEN [c |-> c, out |-> <<>>, raised |-> "InvalidStateError"]
    ELSE IF c.state # "OPEN"
    THEN [c |-> c, out |-> <<>>, raised |-> "InvalidStateError"]
    ELSE [c |-> [c EXCEPT !.response = Some(k)],
          out |-> <<DataPdu(c.destination_cid, request)>>,
          raised |-> "None"]

(* ClassicChannel.send_request, called by the application on a channel it  *)
(* holds                                                                   *)
send_request(e, u) ==
    /\ transport = "BR_EDR"
    /\ AppHolds(e, u)
    /\ calls[e][u].connect = "returned"
    /\ chan[e][u].kind = "classic"
    /\ ~SdpSink(e, u)
    /\ Requests < MaxRequests
    /\ LET k == Len(requests[e]) + 1
           r == classic_send_request(chan[e][u], k,
                    SDP_ServiceSearchRequest(0, 65535, NoContinuation))
       IN  /\ chan' = [chan EXCEPT ![e][u] = r.c]
           /\ link' = LinkAfter(e, FALSE, r.out)
           /\ requests' = [requests EXCEPT ![e] = Append(@,
                  Call("channel", u, IF r.raised = "None" THEN "pending" ELSE r.raised))]
    /\ UNCHANGED <<transport, connected, channels, le_coc_channels, le_coc_requests,
                   identifiers, calls, written, assembled, delivered, emitted, nwrites>>
    /\ UNCHANGED <<sdp_client, sdp_server, connection_parameters_update_response>>
    /\ UNCHANGED restVars

(* sdp.Client.connect up to its await *)
sdp_client_connect(e) ==
    /\ sdp_client[e].channel = 0
    /\ sdp_client[e].connecting = 0
    /\ ClassicChannelCreate(e, [psm |-> SDP_PSM, mtu |-> sdp_client[e].mtu])
    /\ sdp_client' = [sdp_client EXCEPT ![e].connecting = Len(chan[e]) + 1]
    /\ UNCHANGED <<requests, sdp_server, connection_parameters_update_response>>
    /\ UNCHANGED restVars

(* sdp.Client.connect after its await: the client keeps the channel and    *)
(* makes its on_pdu the sink                                               *)
sdp_client_connect_return(e) ==
    /\ sdp_client[e].connecting # 0
    /\ ClassicChannelCreated(e, sdp_client[e].connecting)
    /\ sdp_client' = [sdp_client EXCEPT
           ![e].connecting = 0,
           ![e].channel = IF calls[e][sdp_client[e].connecting].connect = "ok"
                          THEN sdp_client[e].connecting ELSE 0]
    /\ UNCHANGED <<requests, sdp_server, connection_parameters_update_response>>
    /\ UNCHANGED restVars

(* A faulty send_request that starts the count of continuations again *)
client_send_request_rearming(client, continuation_state) ==
    LET request == SDP_ServiceSearchRequest(client.next_transaction_id, 65535,
                                            continuation_state)
    IN  [client |-> [client EXCEPT
                        !.next_transaction_id = (@ + 1) % 65536,
                        !.pending_response = Some([state |-> "pending", value |-> None]),
                        !.pending_request = Some(request),
                        !.watchdog = SDP_CONTINUATION_WATCHDOG],
         request |-> request]

(* Client.make_transaction_id and Client.send_request up to its await: the *)
(* request of the search in hand, with this continuation state             *)
client_send_request(client, continuation_state) ==
    LET request == SDP_ServiceSearchRequest(client.next_transaction_id, 65535,
                                            continuation_state)
    IN  [client |-> [client EXCEPT
                        !.next_transaction_id = (@ + 1) % 65536,
                        !.pending_response = Some([state |-> "pending", value |-> None]),
                        !.pending_request = Some(request)],
         request |-> request]

(* sdp.Client.search_services up to its first await *)
search_services(e) ==
    /\ transport = "BR_EDR"
    /\ e \in Clients
    /\ Requests < MaxRequests
    /\ LET k == Len(requests[e]) + 1
           client == sdp_client[e]
       IN  IF client.pending_request # None \/ client.channel = 0
           THEN /\ requests' = [requests EXCEPT ![e] =
                       Append(@, Call("sdp", client.channel, "InvalidStateError"))]
                /\ UNCHANGED <<sdp_client, link>>
           ELSE LET r == client_send_request(
                        [client EXCEPT !.call = k,
                                       !.service_record_handle_list = <<>>,
                                       !.watchdog = SDP_CONTINUATION_WATCHDOG],
                        NoContinuation)
                IN  /\ requests' = [requests EXCEPT ![e] =
                           Append(@, Call("sdp", client.channel, "pending"))]
                    /\ sdp_client' = [sdp_client EXCEPT ![e] = r.client]
                    /\ link' = LinkAfter(e, FALSE,
                           <<DataPdu(chan[e][client.channel].destination_cid, r.request)>>)
    /\ UNCHANGED <<transport, connected, chan, channels, le_coc_channels,
                   le_coc_requests, identifiers, calls, written, assembled, delivered,
                   emitted, nwrites>>
    /\ UNCHANGED <<sdp_server, connection_parameters_update_response>>
    /\ UNCHANGED restVars

(* sdp.Client.on_pdu *)
client_on_pdu(client, response) ==
    IF client.pending_request = None THEN client
    ELSE IF client.pending_request[1].transaction_id # response.transaction_id
    THEN client
    ELSE IF client.pending_response[1].state # "pending"
    THEN client     \* the future is done: setting it again raises in the callback
    ELSE IF response.pdu_id = "SDP_ERROR_RESPONSE"
    THEN [client EXCEPT !.pending_response =
              Some([state |-> "exception", value |-> Some(response)])]
    ELSE IF response.pdu_id # RESPONSE_PDU_IDS(client.pending_request[1].pdu_id)
    THEN client
    ELSE [client EXCEPT !.pending_response =
              Some([state |-> "result", value |-> Some(response)])]

(* ClassicChannel.on_pdu handing a PDU to the sink sdp.Client.on_pdu *)
sdp_client_on_pdu(e) ==
    /\ HeadIsData(e)
    /\ LET pdu == Head(link[e])
           u == find_channel(e, pdu.cid)
       IN  /\ u # 0
           /\ u = sdp_client[e].channel
           /\ chan[e][u].response = None
           /\ chan[e][u].sink
           /\ link' = LinkAfter(e, TRUE, <<>>)
           /\ delivered' = [delivered EXCEPT ![e][u] = Append(@, pdu.payload)]
           /\ sdp_client' = [sdp_client EXCEPT ![e] = client_on_pdu(@, pdu.payload)]
    /\ UNCHANGED <<transport, connected, chan, channels, le_coc_channels,
                   le_coc_requests, identifiers, calls, written, assembled, emitted,
                   nwrites>>
    /\ UNCHANGED <<requests, sdp_server, connection_parameters_update_response>>
    /\ UNCHANGED restVars

(* sdp.Client.search_services after an await: send_request leaves through  *)
(* its finally clause, and the search goes on with a continuation or ends. *)
search_services_resume(e) ==
    /\ sdp_client[e].pending_response # None
    /\ sdp_client[e].pending_response[1].state # "pending"
    /\ LET client == sdp_client[e]
           future == client.pending_response[1]
           cleared == [client EXCEPT !.pending_request = None,
                                     !.pending_response = None]
           response == future.value[1]
       IN  IF future.state = "exception"
           THEN /\ requests' = [requests EXCEPT ![e][client.call].status = "ProtocolError"]
                /\ sdp_client' = [sdp_client EXCEPT ![e] = [cleared EXCEPT !.call = 0]]
                /\ UNCHANGED link
           ELSE LET handles == client.service_record_handle_list
                                   \o response.service_record_handle_list
                IN  IF response.continuation_state = NoContinuation
                          \/ client.watchdog - 1 <= 0
                    THEN /\ requests' = [requests EXCEPT ![e] =
                                set_result(@, client.call, handles)]
                         /\ sdp_client' = [sdp_client EXCEPT ![e] =
                                [cleared EXCEPT !.call = 0,
                                                !.service_record_handle_list = handles]]
                         /\ UNCHANGED link
                    ELSE LET r == client_send_request(
                                 [cleared EXCEPT !.service_record_handle_list = handles,
                                                 !.watchdog = @ - 1],
                                 response.continuation_state)
                         IN  /\ sdp_client' = [sdp_client EXCEPT ![e] = r.client]
                             /\ link' = LinkAfter(e, FALSE,
                                    <<DataPdu(chan[e][client.channel].destination_cid,
                                              r.request)>>)
                             /\ UNCHANGED requests
    /\ UNCHANGED <<transport, connected, chan, channels, le_coc_channels,
                   le_coc_requests, identifiers, calls, written, assembled, delivered,
                   emitted, nwrites>>
    /\ UNCHANGED <<sdp_server, connection_parameters_update_response>>
    /\ UNCHANGED restVars

(* The handles of the service records that match a search *)
match_services == [i \in 1..MaxServiceRecords |-> i]

(* A faulty on_sdp_service_search_request that answers with the handles    *)
(* that fit in one PDU and calls the response final                        *)
on_sdp_service_search_request_truncating(server, request, peer_mtu) ==
    [server |-> [server EXCEPT !.current_response = Some(<<Len(match_services), <<>>>>)],
     response |-> SDP_ServiceSearchResponse(
         request.transaction_id, Len(match_services),
         Take(match_services, (peer_mtu - 11) \div 4), NoContinuation)]

(* sdp.Server.on_sdp_service_search_request with check_continuation; the   *)
(* response goes out on the channel the server holds, with this peer MTU   *)
on_sdp_service_search_request(server, request, peer_mtu) ==
    IF Len(request.continuation_state) > 1
          /\ (server.current_response = None
                 \/ request.continuation_state # CONTINUATION_STATE)
    THEN [server |-> server,
          response |-> SDP_ErrorResponse(request.transaction_id,
                                         "INVALID_CONTINUATION_STATE")]
    ELSE LET current_response ==
                 IF Len(request.continuation_state) > 1
                 THEN server.current_response[1]
                 ELSE <<Len(match_services),
                        Take(match_services, request.maximum_service_record_count)>>
             maximum_service_record_count == (peer_mtu - 11) \div 4
             service_record_handles ==
                 Take(current_response[2], maximum_service_record_count)
             service_record_handles_remaining ==
                 IF Len(current_response[2]) > maximum_service_record_count
                 THEN Drop(current_response[2], maximum_service_record_count)
                 ELSE <<>>
         IN  [server |-> [server EXCEPT !.current_response =
                              Some(<<current_response[1],
                                     service_record_handles_remaining>>)],
              response |-> SDP_ServiceSearchResponse(
                  request.transaction_id, current_response[1], service_record_handles,
                  IF service_record_handles_remaining # <<>>
                  THEN CONTINUATION_STATE ELSE NoContinuation)]

(* ClassicChannel.on_pdu handing a PDU to the sink sdp.Server.on_pdu *)
sdp_server_on_pdu(e) ==
    /\ HeadIsData(e)
    /\ LET pdu == Head(link[e])
           u == find_channel(e, pdu.cid)
           server == sdp_server[e]
       IN  /\ u # 0
           /\ server.registered
           /\ calls[e][u].connect = "none"
           /\ chan[e][u].psm = SDP_PSM
           /\ chan[e][u].response = None
           /\ chan[e][u].sink
           /\ LET r == on_sdp_service_search_request(
                           server, pdu.payload, chan[e][server.channel].peer_mtu)
              IN  /\ sdp_server' = [sdp_server EXCEPT ![e] = r.server]
                  /\ link' = LinkAfter(e, TRUE,
                         <<DataPdu(chan[e][server.channel].destination_cid, r.response)>>)
           /\ delivered' = [delivered EXCEPT ![e][u] = Append(@, pdu.payload)]
    /\ UNCHANGED <<transport, connected, chan, channels, le_coc_channels,
                   le_coc_requests, identifiers, calls, written, assembled, emitted,
                   nwrites>>
    /\ UNCHANGED <<requests, sdp_client, connection_parameters_update_response>>
    /\ UNCHANGED restVars

L2CAP_Connection_Parameter_Update_Request(identifier) ==
    [code |-> "L2CAP_CONNECTION_PARAMETER_UPDATE_REQUEST", identifier |-> identifier]

L2CAP_Connection_Parameter_Update_Response(identifier, result) ==
    [code |-> "L2CAP_CONNECTION_PARAMETER_UPDATE_RESPONSE", identifier |-> identifier,
     result |-> result]

(* ChannelManager.update_connection_parameters up to its await *)
update_connection_parameters(e) ==
    /\ transport = "LE"
    /\ connected[e]
    /\ Requests < MaxRequests
    /\ LET k == Len(requests[e]) + 1
       IN  IF connection_parameters_update_response[e] # None
           THEN /\ requests' = [requests EXCEPT ![e] =
                       Append(@, Call("manager", 0, "InvalidStateError"))]
                /\ UNCHANGED <<connection_parameters_update_response, link>>
           ELSE /\ requests' = [requests EXCEPT ![e] =
                       Append(@, Call("manager", 0, "pending"))]
                /\ connection_parameters_update_response' =
                       [connection_parameters_update_response EXCEPT ![e] = Some(k)]
                /\ link' = LinkAfter(e, FALSE,
                       <<[cid |-> L2CAP_LE_SIGNALING_CID,
                          payload |-> L2CAP_Connection_Parameter_Update_Request(0)]>>)
    /\ UNCHANGED <<transport, connected, chan, channels, le_coc_channels,
                   le_coc_requests, identifiers, calls, written, assembled, delivered,
                   emitted, nwrites>>
    /\ UNCHANGED <<sdp_client, sdp_server>>
    /\ UNCHANGED restVars

(* ChannelManager.on_l2cap_connection_parameter_update_request *)
on_l2cap_connection_parameter_update_request(e) ==
    /\ HeadIsControl(e, "L2CAP_CONNECTION_PARAMETER_UPDATE_REQUEST")
    /\ LET cid == Head(link[e]).cid
           request == Head(link[e]).payload
       IN  link' = LinkAfter(e, TRUE,
               <<[cid |-> cid,
                  payload |-> L2CAP_Connection_Parameter_Update_Response(
                      request.identifier,
                      IF role(e) = "BT_CENTRAL_ROLE"
                      THEN L2CAP_CONNECTION_PARAMETERS_ACCEPTED_RESULT
                      ELSE L2CAP_CONNECTION_PARAMETERS_REJECTED_RESULT)]>>)
    /\ UNCHANGED <<transport, connected, chan, channels, le_coc_channels,
                   le_coc_requests, identifiers, calls, written, assembled, delivered,
                   emitted, nwrites>>
    /\ UNCHANGED otherVars

(* ChannelManager.on_l2cap_connection_parameter_update_response *)
on_l2cap_connection_parameter_update_response(e) ==
    /\ HeadIsControl(e, "L2CAP_CONNECTION_PARAMETER_UPDATE_RESPONSE")
    /\ LET response == Head(link[e]).payload
       IN  IF connection_parameters_update_response[e] # None
           THEN /\ requests' = [requests EXCEPT ![e] =
                       set_result(@, connection_parameters_update_response[e][1],
                                  response.result)]
                /\ connection_parameters_update_response' =
                       [connection_parameters_update_response EXCEPT ![e] = None]
           ELSE UNCHANGED <<requests, connection_parameters_update_response>>
    /\ link' = LinkAfter(e, TRUE, <<>>)
    /\ UNCHANGED <<transport, connected, chan, channels, le_coc_channels,
                   le_coc_requests, identifiers, calls, written, assembled, delivered,
                   emitted, nwrites>>
    /\ UNCHANGED <<sdp_client, sdp_server>>
    /\ UNCHANGED restVars

InitRequests == \E t \in {"LE", "BR_EDR"} : InitL2cap(t) /\ InitPending(TRUE) /\ InitRest

NextRequests ==
    \/ \E e \in Endpoints, spec \in RequestClientSpecs : create_classic_channel(e, spec)
    \/ \E e \in Endpoints, u \in 1..(2 * MaxChannels) : create_classic_channel_return(e, u)
    \/ \E e \in Endpoints : sdp_client_connect(e)
    \/ \E e \in Endpoints : sdp_client_connect_return(e)
    \/ \E e \in Endpoints : on_l2cap_connection_request(e)
    \/ \E e \in Endpoints : on_l2cap_connection_response(e)
    \/ \E e \in Endpoints : on_l2cap_configure_request(e)
    \/ \E e \in Endpoints : on_l2cap_configure_response(e)
    \/ \E e \in Endpoints, u \in 1..(2 * MaxChannels) : send_request(e, u)
    \/ \E e \in Endpoints : classic_on_pdu(e)
    \/ \E e \in Endpoints : search_services(e)
    \/ \E e \in Endpoints : sdp_client_on_pdu(e)
    \/ \E e \in Endpoints : search_services_resume(e)
    \/ \E e \in Endpoints : sdp_server_on_pdu(e)
    \/ \E e \in Endpoints : update_connection_parameters(e)
    \/ \E e \in Endpoints : on_l2cap_connection_parameter_update_request(e)
    \/ \E e \in Endpoints : on_l2cap_connection_parameter_update_response(e)
    \/ \E e \in Endpoints : on_disconnection(e)

SpecRequests == InitRequests /\ [][NextRequests]_vars


---------------------------------------------------------------------------
(* Device: connections, advertising and the operations on a connection     *)

MaxDeviceCalls == 2     \* calls the application makes on the Device
MaxDeviceEvents == 1    \* events about a connection the controller sends

(* The calls Device.disconnect, authenticate, encrypt, request_remote_name *)
(* and the HCI command each of them sends                                  *)
Operations == {"disconnect", "authenticate", "encrypt", "request_remote_name"}
CommandOf(op) ==
    CASE op = "disconnect" -> "HCI_Disconnect"
      [] op = "authenticate" -> "HCI_Authentication_Requested"
      [] op = "encrypt" -> "HCI_Set_Connection_Encryption"
      [] op = "request_remote_name" -> "HCI_Remote_Name_Request"

(* The arguments the application calls start_advertising with *)
StartAdvertisingArgs ==
    {[advertising_type |-> "UNDIRECTED_CONNECTABLE_SCANNABLE", target |-> None,
      auto_restart |-> TRUE],
     [advertising_type |-> "DIRECTED_CONNECTABLE_LOW_DUTY", target |-> Some("peer"),
      auto_restart |-> TRUE]}

(* The calls of the application, as opposed to the tasks the Device creates *)
AppCalls == {t \in DOMAIN tasks : tasks[t].op # "new_connection" /\ ~tasks[t].restart}

(* Device.send_command: the command goes to the controller, which answers  *)
(* its commands in order; the coroutine t waits for the answer.            *)
SendCommand(t, name, arg) ==
    /\ controller' = [controller EXCEPT
           !.commands = Append(@, [task |-> t, name |-> name, arg |-> arg])]
    /\ hci_commands' = [hci_commands EXCEPT ![name] = @ + 1]

(* EventEmitter.emit to the listeners L, each of which resolves the future *)
(* of its coroutine with outcome: set_result and set_exception raise       *)
(* InvalidStateError on a future that is done, which ends the emit.        *)
emit(ts, L, outcome) ==
    LET bad == {i \in L : ts[i].pending # "pending"}
        stop == IF bad = {} THEN Len(ts) + 1
                ELSE CHOOSE i \in bad : \A j \in bad : i <= j
    IN  [tasks |-> [i \in DOMAIN ts |->
                       IF i \in L /\ i < stop THEN [ts[i] EXCEPT !.pending = outcome]
                       ELSE ts[i]],
         raised |-> bad # {}]

(* The listeners Device.connect has on 'connection' and                    *)
(* 'connection_failure', from lines 1173-1174 to the finally clause        *)
ConnectListeners(ts) ==
    {i \in DOMAIN ts : ts[i].op = "connect" /\ ts[i].pc \notin {"start", "done"}}

(* The listeners an operation has on its connection *)
OperationListeners(ts, op, h) ==
    {i \in DOMAIN ts : /\ ts[i].op = op
                       /\ ts[i].handle = h
                       /\ ts[i].pc \notin {"start", "done"}}

(* Device.connect on LE, up to the await of send_command *)
device_connect(timeout) ==
    /\ Cardinality(AppCalls) < MaxDeviceCalls
    /\ IF device.connecting
       THEN /\ tasks' = Append(tasks, [Task("connect") EXCEPT
                                          !.pc = "done", !.timeout = timeout,
                                          !.result = "InvalidStateError"])
            /\ UNCHANGED <<controller, hci_commands>>
       ELSE /\ tasks' = Append(tasks, [Task("connect") EXCEPT
                                          !.pc = "send_command", !.timeout = timeout,
                                          !.pending = "pending"])
            /\ SendCommand(Len(tasks) + 1, "HCI_LE_Create_Connection", 0)
    /\ UNCHANGED <<device, raised>>
    /\ UNCHANGED <<l2capVars, pendingVars, scanVars, moreVars>>

(* What Device.connect returns or raises once pending_connection is done,  *)
(* lines 1267-1280                                                         *)
ConnectResult(task) ==
    IF task.pending = "result" THEN "Connection"
    ELSE IF task.timed_out THEN "TimeoutError" ELSE "ConnectionError"

(* Device.connect, lines 1260-1270: the status of the create connection    *)
(* command is in                                                           *)
device_connect_command_status(t) ==
    /\ t \in DOMAIN tasks
    /\ tasks[t].op = "connect"
    /\ tasks[t].pc = "send_command"
    /\ tasks[t].response # None
    /\ IF tasks[t].response[1] # "SUCCESS"
       THEN /\ tasks' = [tasks EXCEPT ![t].pc = "done", ![t].response = None,
                                      ![t].result = "HCI_StatusError"]
            /\ device' = [device EXCEPT !.connecting = FALSE]
       ELSE IF ~tasks[t].timeout /\ tasks[t].pending # "pending"
       THEN /\ tasks' = [tasks EXCEPT ![t].pc = "done", ![t].response = None,
                                      ![t].result = ConnectResult(tasks[t])]
            /\ device' = [device EXCEPT !.connecting = FALSE]
       ELSE /\ tasks' = [tasks EXCEPT ![t].pc = "wait", ![t].response = None]
            /\ device' = [device EXCEPT !.connecting = TRUE]
    /\ UNCHANGED <<controller, hci_commands, raised>>
    /\ UNCHANGED <<l2capVars, pendingVars, scanVars, moreVars>>

(* Device.connect, lines 1269-1275: the timeout of wait_for expires and    *)
(* the coroutine sends the cancel command                                  *)
device_connect_timeout(t) ==
    /\ t \in DOMAIN tasks
    /\ tasks[t].op = "connect"
    /\ tasks[t].pc = "wait"
    /\ tasks[t].timeout
    /\ tasks[t].pending = "pending"
    /\ tasks' = [tasks EXCEPT ![t].pc = "cancel_command", ![t].timed_out = TRUE]
    /\ SendCommand(t, "HCI_LE_Create_Connection_Cancel", 0)
    /\ UNCHANGED <<device, raised>>
    /\ UNCHANGED <<l2capVars, pendingVars, scanVars, moreVars>>

(* Device.connect, lines 1272-1280: the answer to the cancel command is in *)
device_connect_cancel_status(t) ==
    /\ t \in DOMAIN tasks
    /\ tasks[t].op = "connect"
    /\ tasks[t].pc = "cancel_command"
    /\ tasks[t].response # None
    /\ IF tasks[t].pending # "pending"
       THEN /\ tasks' = [tasks EXCEPT ![t].pc = "done", ![t].response = None,
                                      ![t].result = ConnectResult(tasks[t])]
            /\ device' = [device EXCEPT !.connecting = FALSE]
       ELSE /\ tasks' = [tasks EXCEPT ![t].pc = "wait_cancelled", ![t].response = None]
            /\ UNCHANGED device
    /\ UNCHANGED <<controller, hci_commands, raised>>
    /\ UNCHANGED <<l2capVars, pendingVars, scanVars, moreVars>>

(* Device.connect: pending_connection is done and the coroutine goes on to *)
(* its end through the finally clause, lines 1281-1285                     *)
device_connect_return(t) ==
    /\ t \in DOMAIN tasks
    /\ tasks[t].op = "connect"
    /\ tasks[t].pc \in {"wait", "wait_cancelled"}
    /\ tasks[t].pending # "pending"
    /\ tasks' = [tasks EXCEPT ![t].pc = "done", ![t].result = ConnectResult(tasks[t])]
    /\ device' = [device EXCEPT !.connecting = FALSE]
    /\ UNCHANGED <<controller, hci_commands, raised>>
    /\ UNCHANGED <<l2capVars, pendingVars, scanVars, moreVars>>

(* Connection.__init__ *)
Connection(h, t, r) == [handle |-> h, transport |-> t, role |-> r]

(* Device.on_connection, lines 1673-1676 and 1707-1710: the connection     *)
(* joins the map and 'connection' is emitted                               *)
AddConnection(dev, ts, h, t, r) ==
    LET e == emit(ts, ConnectListeners(ts), "result")
    IN  [device |-> [dev EXCEPT !.connections = Put(@, h, Connection(h, t, r))],
         tasks |-> e.tasks,
         raised |-> e.raised]

(* The controller reports a new connection: one the Device asked for as    *)
(* central, one to the advertising Device, or an incoming BR/EDR one.      *)
(* Device.on_connection handles the event.                                 *)
device_on_connection(h, t, r) ==
    /\ h \in Handles
    /\ h = Cardinality(controller.used) + 1
    /\ \/ t = "LE" /\ r = "CENTRAL" /\ controller.create_connection = "pending"
       \/ t = "LE" /\ r = "PERIPHERAL" /\ controller.advertising
       \/ t = "BR_EDR" /\ r = "PERIPHERAL"
    /\ controller' = [controller EXCEPT
           !.used = @ \cup {h},
           !.links = @ \cup {h},
           !.create_connection = IF r = "CENTRAL" THEN "idle" ELSE @,
           !.advertising = IF t = "LE" /\ r = "PERIPHERAL" THEN FALSE ELSE @]
    /\ IF t = "BR_EDR"
       THEN LET a == AddConnection(device, tasks, h, t, r)
            IN  /\ device' = a.device
                /\ tasks' = a.tasks
                /\ raised' = IF a.raised
                             THEN raised \cup {[handler |-> "on_connection", handle |-> h,
                                                  error |-> "InvalidStateError"]}
                             ELSE raised
       ELSE /\ device' = [device EXCEPT !.advertising = FALSE]
            /\ tasks' = Append(tasks, [Task("new_connection") EXCEPT
                                          !.handle = h, !.role = r])
            /\ UNCHANGED raised
    /\ UNCHANGED hci_commands
    /\ UNCHANGED <<l2capVars, pendingVars, scanVars, moreVars>>

(* The task new_connection of Device.on_connection, lines 1687-1693 *)
device_new_connection(t) ==
    /\ t \in DOMAIN tasks
    /\ tasks[t].op = "new_connection"
    /\ tasks[t].pc = "start"
    /\ IF device.le_read_phy
       THEN /\ tasks' = [tasks EXCEPT ![t].pc = "send_command"]
            /\ SendCommand(t, "HCI_LE_Read_PHY", tasks[t].handle)
            /\ UNCHANGED device
       ELSE LET a == AddConnection(device, [tasks EXCEPT ![t].pc = "done"],
                                   tasks[t].handle, "LE", tasks[t].role)
            IN  /\ device' = a.device
                /\ tasks' = [a.tasks EXCEPT ![t].result =
                                 IF a.raised THEN "InvalidStateError" ELSE "None"]
                /\ UNCHANGED <<controller, hci_commands>>
    /\ UNCHANGED raised
    /\ UNCHANGED <<l2capVars, pendingVars, scanVars, moreVars>>

(* The task new_connection, lines 1691-1710: the PHY is in *)
device_new_connection_return(t) ==
    /\ t \in DOMAIN tasks
    /\ tasks[t].op = "new_connection"
    /\ tasks[t].pc = "send_command"
    /\ tasks[t].response # None
    /\ IF tasks[t].response[1] # "SUCCESS"
       THEN /\ tasks' = [tasks EXCEPT ![t].pc = "done", ![t].response = None,
                                      ![t].result = "HCI_Error"]
            /\ UNCHANGED device
       ELSE LET a == AddConnection(device,
                                   [tasks EXCEPT ![t].pc = "done", ![t].response = None],
                                   tasks[t].handle, "LE", tasks[t].role)
            IN  /\ device' = a.device
                /\ tasks' = [a.tasks EXCEPT ![t].result =
                                 IF a.raised THEN "InvalidStateError" ELSE "None"]
    /\ UNCHANGED <<controller, hci_commands, raised>>
    /\ UNCHANGED <<l2capVars, pendingVars, scanVars, moreVars>>

(* The controller gives up creating the connection, of itself or after a   *)
(* cancel command. Device.on_connection_failure handles the event.         *)
device_on_connection_failure ==
    /\ controller.create_connection \in {"pending", "cancelled"}
    /\ controller' = [controller EXCEPT !.create_connection = "idle"]
    /\ LET e == emit(tasks, ConnectListeners(tasks), "exception")
       IN  /\ tasks' = e.tasks
           /\ raised' = IF e.raised
                        THEN raised \cup {[handler |-> "on_connection_failure",
                                             handle |-> 0, error |-> "InvalidStateError"]}
                        ELSE raised
    /\ device' = [device EXCEPT !.advertising =
                     IF @ /\ is_directed(device.advertising_type[1]) THEN FALSE ELSE @]
    /\ UNCHANGED hci_commands
    /\ UNCHANGED <<l2capVars, pendingVars, scanVars, moreVars>>

(* The controller reports the end of a link. Device.on_disconnection       *)
(* handles the event, behind with_connection_from_handle.                  *)
device_on_disconnection(h) ==
    /\ h \in controller.links
    /\ controller' = [controller EXCEPT !.links = @ \ {h}]
    /\ IF h \notin DOMAIN device.connections
       THEN /\ raised' = raised \cup {[handler |-> "on_disconnection", handle |-> h,
                                         error |-> "ValueError"]}
            /\ UNCHANGED <<device, tasks>>
       ELSE LET e == emit(tasks, OperationListeners(tasks, "disconnect", h), "result")
            IN  IF e.raised
                THEN /\ raised' = raised \cup {[handler |-> "on_disconnection",
                                                  handle |-> h,
                                                  error |-> "InvalidStateError"]}
                     /\ tasks' = e.tasks
                     /\ UNCHANGED device
                ELSE /\ device' = [device EXCEPT !.connections = Remove(@, h)]
                     /\ tasks' = IF device.auto_restart_advertising
                                 THEN Append(e.tasks, [Task("start_advertising") EXCEPT
                                          !.advertising_type = device.advertising_type,
                                          !.target = None,
                                          !.auto_restart = TRUE,
                                          !.restart = TRUE,
                                          !.handle = h,
                                          !.role = device.connections[h].role])
                                 ELSE e.tasks
                     /\ UNCHANGED raised
    /\ UNCHANGED hci_commands
    /\ UNCHANGED <<l2capVars, pendingVars, scanVars, moreVars>>

(* Device.start_advertising and Device.stop_advertising: the commands they *)
(* send one after the other, each of them awaited                          *)
AdvertisingStages == <<"stop", "data", "scan_response", "parameters", "enable">>

(* Device.start_advertising: whether the coroutine goes through the stage  *)
(* s, lines 881, 885, 891 *)
AdvertisingStageApplies(task, s) ==
    CASE s = "stop" -> device.advertising
      [] s = "data" -> has_data(task.advertising_type[1])
      [] s = "scan_response" -> is_scannable(task.advertising_type[1])
      [] OTHER -> TRUE

(* Device.start_advertising of the coroutine t from the stage after the    *)
(* n-th one, to its next await or to its end; dev is the Device then.      *)
AdvertisingFrom(t, n, dev) ==
    LET task == tasks[t]
        later == {i \in (n + 1)..Len(AdvertisingStages) :
                      AdvertisingStageApplies(task, AdvertisingStages[i])}
        next == CHOOSE i \in later : \A j \in later : i <= j
    IN  IF n = Len(AdvertisingStages)
        THEN /\ device' = [dev EXCEPT !.auto_restart_advertising = task.auto_restart,
                                      !.advertising_type = task.advertising_type,
                                      !.advertising = TRUE]
             /\ tasks' = [tasks EXCEPT ![t].pc = "done", ![t].response = None]
             /\ UNCHANGED <<controller, hci_commands>>
        ELSE IF /\ AdvertisingStages[next] = "parameters"
                /\ is_directed(task.advertising_type[1])
                /\ task.target = None
        THEN /\ device' = dev
             /\ tasks' = [tasks EXCEPT ![t].pc = "done", ![t].response = None,
                                       ![t].result = "ValueError"]
             /\ UNCHANGED <<controller, hci_commands>>
        ELSE /\ device' = dev
             /\ tasks' = [tasks EXCEPT ![t].pc = AdvertisingStages[next],
                                       ![t].response = None]
             /\ SendCommand(t,
                    CASE AdvertisingStages[next] = "data" -> "HCI_LE_Set_Advertising_Data"
                      [] AdvertisingStages[next] = "scan_response" ->
                             "HCI_LE_Set_Scan_Response_Data"
                      [] AdvertisingStages[next] = "parameters" ->
                             "HCI_LE_Set_Advertising_Parameters"
                      [] OTHER -> "HCI_LE_Set_Advertising_Enable",
                    IF AdvertisingStages[next] = "enable" THEN 1 ELSE 0)

(* The application calls Device.start_advertising *)
device_start_advertising(args) ==
    /\ Cardinality(AppCalls) < MaxDeviceCalls
    /\ tasks' = Append(tasks, [Task("start_advertising") EXCEPT
                                  !.advertising_type = Some(args.advertising_type),
                                  !.target = args.target,
                                  !.auto_restart = args.auto_restart])
    /\ UNCHANGED <<device, controller, hci_commands, raised>>
    /\ UNCHANGED <<l2capVars, pendingVars, scanVars, moreVars>>

(* Device.start_advertising, from its start to its first await *)
device_start_advertising_start(t) ==
    /\ t \in DOMAIN tasks
    /\ tasks[t].op = "start_advertising"
    /\ tasks[t].pc = "start"
    /\ AdvertisingFrom(t, 0, device)
    /\ UNCHANGED raised
    /\ UNCHANGED <<l2capVars, pendingVars, scanVars, moreVars>>

(* Device.start_advertising goes on when the command it awaits is answered *)
(* (check_result: the controller accepts all of them); after the command   *)
(* of stop_advertising, lines 934-937, the Device is not advertising.      *)
device_start_advertising_resume(t) ==
    /\ t \in DOMAIN tasks
    /\ tasks[t].op = "start_advertising"
    /\ \E n \in 1..Len(AdvertisingStages) :
           /\ tasks[t].pc = AdvertisingStages[n]
           /\ tasks[t].response # None
           /\ AdvertisingFrom(t, n,
                  IF n = 1
                  THEN [device EXCEPT !.advertising = FALSE,
                                      !.advertising_type = None,
                                      !.auto_restart_advertising = FALSE]
                  ELSE device)
    /\ UNCHANGED raised
    /\ UNCHANGED <<l2capVars, pendingVars, scanVars, moreVars>>

(* Device.disconnect, authenticate, encrypt and request_remote_name on the *)
(* connection with handle h, up to the await of send_command               *)
device_operation(op, h) ==
    /\ Cardinality(AppCalls) < MaxDeviceCalls
    /\ h \in DOMAIN device.connections
    /\ tasks' = Append(tasks, [Task(op) EXCEPT !.pc = "send_command", !.handle = h,
                                               !.pending = "pending"])
    /\ SendCommand(Len(tasks) + 1, CommandOf(op), h)
    /\ UNCHANGED <<device, raised>>
    /\ UNCHANGED <<l2capVars, pendingVars, scanVars, moreVars>>

(* What the operation returns or raises once its future is done *)
OperationResult(task) == IF task.pending = "result" THEN "None" ELSE "HCI_Error"

(* Device.disconnect, lines 1319-1328, and the like of authenticate,       *)
(* encrypt and request_remote_name: the status of the command is in        *)
device_operation_command_status(t) ==
    /\ t \in DOMAIN tasks
    /\ tasks[t].op \in Operations
    /\ tasks[t].pc = "send_command"
    /\ tasks[t].response # None
    /\ IF tasks[t].response[1] # "SUCCESS"
       THEN /\ tasks' = [tasks EXCEPT ![t].pc = "done", ![t].response = None,
                                      ![t].result = "HCI_StatusError"]
            /\ device' = [device EXCEPT !.disconnecting =
                             IF tasks[t].op = "disconnect" THEN FALSE ELSE @]
       ELSE IF tasks[t].pending # "pending"
       THEN /\ tasks' = [tasks EXCEPT ![t].pc = "done", ![t].response = None,
                                      ![t].result = OperationResult(tasks[t])]
            /\ device' = [device EXCEPT !.disconnecting =
                             IF tasks[t].op = "disconnect" THEN FALSE ELSE @]
       ELSE /\ tasks' = [tasks EXCEPT ![t].pc = "wait", ![t].response = None]
            /\ device' = [device EXCEPT !.disconnecting =
                             IF tasks[t].op = "disconnect" THEN TRUE ELSE @]
    /\ UNCHANGED <<controller, hci_commands, raised>>
    /\ UNCHANGED <<l2capVars, pendingVars, scanVars, moreVars>>

(* The operation's future is done and its coroutine goes on to its end *)
device_operation_return(t) ==
    /\ t \in DOMAIN tasks
    /\ tasks[t].op \in Operations
    /\ tasks[t].pc = "wait"
    /\ tasks[t].pending # "pending"
    /\ tasks' = [tasks EXCEPT ![t].pc = "done", ![t].result = OperationResult(tasks[t])]
    /\ device' = [device EXCEPT !.disconnecting =
                     IF tasks[t].op = "disconnect" THEN FALSE ELSE @]
    /\ UNCHANGED <<controller, hci_commands, raised>>
    /\ UNCHANGED <<l2capVars, pendingVars, scanVars, moreVars>>

(* The controller reports the end of an authentication, of an encryption   *)
(* change or of a remote name request on a link, asked for by the Device   *)
(* or by the peer. Device.on_connection_authentication,                    *)
(* on_connection_encryption_change and on_remote_name handle the events,   *)
(* behind with_connection_from_handle.                                     *)
device_on_connection_event(op, h) ==
    /\ op \in Operations \ {"disconnect"}
    /\ h \in controller.links
    /\ controller.events < MaxDeviceEvents
    /\ controller' = [controller EXCEPT !.events = @ + 1]
    /\ IF h \notin DOMAIN device.connections
       THEN /\ raised' = raised \cup {[handler |-> op, handle |-> h,
                                         error |-> "ValueError"]}
            /\ UNCHANGED tasks
       ELSE LET e == emit(tasks, OperationListeners(tasks, op, h), "result")
            IN  /\ tasks' = e.tasks
                /\ raised' = IF e.raised
                             THEN raised \cup {[handler |-> op, handle |-> h,
                                                  error |-> "InvalidStateError"]}
                             ELSE raised
    /\ UNCHANGED <<device, hci_commands>>
    /\ UNCHANGED <<l2capVars, pendingVars, scanVars, moreVars>>

(* The controller answers the oldest of its commands: the status it gives  *)
(* and what the command changes in the controller                          *)
CommandStatus(c) ==
    CASE c.name = "HCI_LE_Create_Connection" ->
             IF controller.create_connection = "idle" THEN "SUCCESS"
             ELSE "COMMAND_DISALLOWED"
      [] c.name = "HCI_LE_Create_Connection_Cancel" ->
             IF controller.create_connection = "pending" THEN "SUCCESS"
             ELSE "COMMAND_DISALLOWED"
      [] c.name \in {"HCI_LE_Read_PHY"} \cup {CommandOf(op) : op \in Operations} ->
             IF c.arg \in controller.links THEN "SUCCESS"
             ELSE "UNKNOWN_CONNECTION_IDENTIFIER"
      [] c.name = "HCI_LE_Set_Scan_Parameters" ->
             IF controller.scanning THEN "COMMAND_DISALLOWED" ELSE "SUCCESS"
      [] OTHER -> "SUCCESS"

controller_command ==
    /\ controller.commands # <<>>
    /\ LET c == Head(controller.commands)
           status == CommandStatus(c)
       IN  /\ controller' = [controller EXCEPT
                  !.commands = Tail(@),
                  !.create_connection =
                      IF status # "SUCCESS" THEN @
                      ELSE IF c.name = "HCI_LE_Create_Connection" THEN "pending"
                      ELSE IF c.name = "HCI_LE_Create_Connection_Cancel" THEN "cancelled"
                      ELSE @,
                  !.advertising =
                      IF c.name = "HCI_LE_Set_Advertising_Enable" THEN c.arg = 1 ELSE @,
                  !.scan_type =
                      IF c.name = "HCI_LE_Set_Scan_Parameters" /\ status = "SUCCESS"
                      THEN c.arg ELSE @,
                  !.scanning =
                      IF c.name = "HCI_LE_Set_Scan_Enable" THEN c.arg = 1 ELSE @]
           /\ tasks' = [tasks EXCEPT ![c.task].response = Some(status)]
    /\ UNCHANGED <<device, hci_commands, raised>>
    /\ UNCHANGED <<l2capVars, pendingVars, scanVars, moreVars>>

InitDevices ==
    /\ InitL2cap("LE")
    /\ InitPending(FALSE)
    /\ \E le_read_phy \in BOOLEAN : InitDevice(le_read_phy)
    /\ InitScan(FALSE)
    /\ InitMore

NextDevice ==
    \/ \E timeout \in BOOLEAN : device_connect(timeout)
    \/ \E t \in DOMAIN tasks : device_connect_command_status(t)
    \/ \E t \in DOMAIN tasks : device_connect_timeout(t)
    \/ \E t \in DOMAIN tasks : device_connect_cancel_status(t)
    \/ \E t \in DOMAIN tasks : device_connect_return(t)
    \/ \E h \in Handles, t \in {"LE", "BR_EDR"}, r \in {"CENTRAL", "PERIPHERAL"} : device_on_connection(h, t, r)
    \/ \E t \in DOMAIN tasks : device_new_connection(t)
    \/ \E t \in DOMAIN tasks : device_new_connection_return(t)
    \/ device_on_connection_failure
    \/ \E h \in Handles : device_on_disconnection(h)
    \/ \E args \in StartAdvertisingArgs : device_start_advertising(args)
    \/ \E t \in DOMAIN tasks : device_start_advertising_start(t)
    \/ \E t \in DOMAIN tasks : device_start_advertising_resume(t)
    \/ \E op \in Operations, h \in Handles : device_operation(op, h)
    \/ \E t \in DOMAIN tasks : device_operation_command_status(t)
    \/ \E t \in DOMAIN tasks : device_operation_return(t)
    \/ \E op \in Operations, h \in Handles : device_on_connection_event(op, h)
    \/ controller_command

SpecDevice == InitDevices /\ [][NextDevice]_vars

---------------------------------------------------------------------------
(* Device: scanning and the advertising reports                            *)

MaxScanCalls == 3       \* start_scanning and stop_scanning calls of the application
MaxReports == 3         \* advertising reports the controller sends

(* The addresses of the advertisers *)
Addresses == {1, 2}

(* HCI_LE_Advertising_Report_Event: the event types of the reports *)
ReportTypes == {"ADV_IND", "ADV_NONCONN_IND", "SCAN_RSP"}

(* LegacyAdvertisement.from_advertising_report *)
from_advertising_report(report) ==
    [address |-> report.address,
     is_connectable |-> report.event_type \in {"ADV_IND", "ADV_DIRECT_IND"},
     is_directed |-> report.event_type = "ADV_DIRECT_IND",
     is_scannable |-> report.event_type \in {"ADV_IND", "ADV_SCAN_IND"},
     is_scan_response |-> report.event_type = "SCAN_RSP",
     data |-> report.data]

(* AdvertisementDataAccumulator.__init__ *)
AdvertisementDataAccumulator(passive) ==
    [passive |-> passive, last_advertisement |-> None, last_data |-> <<>>]

(* AdvertisementDataAccumulator.update: the accumulator after the report   *)
(* and the advertisement returned, or None                                 *)
update(acc, report) ==
    LET advertisement == from_advertising_report(report)
        unanswered == /\ acc.last_advertisement # None
                      /\ ~acc.last_advertisement[1].is_scan_response
    IN  IF advertisement.is_scan_response
        THEN [accumulator |-> [acc EXCEPT !.last_advertisement = Some(advertisement),
                                          !.last_data = <<>>],
              result |-> IF unanswered
                         THEN Some([advertisement EXCEPT
                                  !.is_connectable = acc.last_advertisement[1].is_connectable,
                                  !.is_scannable = TRUE,
                                  !.data = acc.last_data \o report.data])
                         ELSE None]
        ELSE [accumulator |-> [acc EXCEPT !.last_advertisement = Some(advertisement),
                                          !.last_data = report.data],
              result |-> IF acc.passive \/ ~advertisement.is_scannable \/ unanswered
                         THEN Some(advertisement)
                         ELSE None]

(* The controller reports an advertisement it has heard, or, in an active  *)
(* scan, a scan response. Device.on_advertising_report handles the event;  *)
(* the k-th report carries the byte k. In reports, active says whether the *)
(* scan was an active one; in advertisements, at is the report that the    *)
(* event was emitted for.                                                  *)
on_advertising_report(address, event_type) ==
    /\ Len(reports) < MaxReports
    /\ controller.scanning
    /\ event_type = "SCAN_RSP" => controller.scan_type = 1
    /\ LET report == [address |-> address, event_type |-> event_type,
                      data |-> <<Len(reports) + 1>>]
           accumulator == IF address \in DOMAIN advertisement_accumulators
                          THEN advertisement_accumulators[address]
                          ELSE AdvertisementDataAccumulator(scanning_is_passive)
           u == update(accumulator, report)
       IN  /\ reports' = Append(reports, report @@ [active |-> controller.scan_type = 1])
           /\ advertisement_accumulators' =
                  Put(advertisement_accumulators, address, u.accumulator)
           /\ advertisements' =
                  IF u.result # None
                  THEN Append(advertisements, u.result[1] @@ [at |-> Len(reports) + 1])
                  ELSE advertisements
    /\ UNCHANGED scanning_is_passive
    /\ UNCHANGED <<l2capVars, pendingVars, deviceVars, moreVars>>

(* Device.start_scanning, up to the await of the first command. Line 961   *)
(* sets self.advertisement_accumulator, which is not the map               *)
(* advertisement_accumulators that on_advertising_report reads.            *)
start_scanning(active) ==
    /\ Cardinality(AppCalls) < MaxScanCalls
    /\ tasks' = Append(tasks, [Task("start_scanning") EXCEPT
                                  !.pc = "parameters", !.active = active])
    /\ SendCommand(Len(tasks) + 1, "HCI_LE_Set_Scan_Parameters", IF active THEN 1 ELSE 0)
    /\ UNCHANGED <<device, raised>>
    /\ UNCHANGED <<l2capVars, pendingVars, scanVars, moreVars>>

(* Device.stop_scanning, up to the await of its command *)
stop_scanning ==
    /\ Cardinality(AppCalls) < MaxScanCalls
    /\ tasks' = Append(tasks, [Task("stop_scanning") EXCEPT !.pc = "enable"])
    /\ SendCommand(Len(tasks) + 1, "HCI_LE_Set_Scan_Enable", 0)
    /\ UNCHANGED <<device, raised>>
    /\ UNCHANGED <<l2capVars, pendingVars, scanVars, moreVars>>

(* Device.start_scanning and stop_scanning go on when the command they     *)
(* await is answered; check_result raises on a status that is not success. *)
scanning_resume(t) ==
    /\ t \in DOMAIN tasks
    /\ tasks[t].op \in {"start_scanning", "stop_scanning"}
    /\ tasks[t].pc \in {"parameters", "enable"}
    /\ tasks[t].response # None
    /\ IF tasks[t].response[1] # "SUCCESS"
       THEN /\ tasks' = [tasks EXCEPT ![t].pc = "done", ![t].response = None,
                                      ![t].result = "HCI_Error"]
            /\ UNCHANGED <<controller, hci_commands, scanning_is_passive>>
       ELSE IF tasks[t].pc = "parameters"
       THEN /\ tasks' = [tasks EXCEPT ![t].pc = "enable", ![t].response = None]
            /\ SendCommand(t, "HCI_LE_Set_Scan_Enable", 1)
            /\ UNCHANGED scanning_is_passive
       ELSE /\ tasks' = [tasks EXCEPT ![t].pc = "done", ![t].response = None]
            /\ scanning_is_passive' = IF tasks[t].op = "start_scanning"
                                      THEN ~tasks[t].active
                                      ELSE scanning_is_passive
            /\ UNCHANGED <<controller, hci_commands>>
    /\ UNCHANGED <<device, raised>>
    /\ UNCHANGED <<advertisement_accumulators, reports, advertisements>>
    /\ UNCHANGED <<l2capVars, pendingVars, moreVars>>

InitScans == InitL2cap("LE") /\ InitPending(FALSE) /\ InitRest

NextScan ==
    \/ \E active \in BOOLEAN : start_scanning(active)
    \/ stop_scanning
    \/ \E t \in DOMAIN tasks : scanning_resume(t)
    \/ \E address \in Addresses, event_type \in ReportTypes : on_advertising_report(address, event_type)
    \/ controller_command

SpecScan == InitScans /\ [][NextScan]_vars

---------------------------------------------------------------------------
(* A server that is not this implementation and never ends a response:     *)
(* host e stands for it when the ServiceSearch request at the head of its  *)
(* queue is answered with one handle and a continuation state.             *)

peer_answers_with_continuation(e) ==
    /\ HeadIsData(e)
    /\ LET pdu == Head(link[e])
           u == find_channel(e, pdu.cid)
           server == sdp_server[e]
       IN  /\ u # 0
           /\ server.registered
           /\ calls[e][u].connect = "none"
           /\ chan[e][u].psm = SDP_PSM
           /\ chan[e][u].sink
           /\ pdu.payload.pdu_id = "SDP_SERVICE_SEARCH_REQUEST"
           /\ link' = LinkAfter(e, TRUE,
                  <<DataPdu(chan[e][u].destination_cid,
                            SDP_ServiceSearchResponse(
                                pdu.payload.transaction_id, Len(match_services),
                                <<1>>, CONTINUATION_STATE))>>)
           /\ delivered' = [delivered EXCEPT ![e][u] = Append(@, pdu.payload)]
    /\ UNCHANGED <<transport, connected, chan, channels, le_coc_channels,
                   le_coc_requests, identifiers, calls, written, assembled, emitted,
                   nwrites>>
    /\ UNCHANGED otherVars

InitWatchdog == InitL2cap("BR_EDR") /\ InitPending(TRUE) /\ InitRest

NextWatchdog ==
    \/ \E e \in Endpoints : sdp_client_connect(e)
    \/ \E e \in Endpoints : sdp_client_connect_return(e)
    \/ \E e \in Endpoints : on_l2cap_connection_request(e)
    \/ \E e \in Endpoints : on_l2cap_connection_response(e)
    \/ \E e \in Endpoints : on_l2cap_configure_request(e)
    \/ \E e \in Endpoints : on_l2cap_configure_response(e)
    \/ \E e \in Endpoints : search_services(e)
    \/ \E e \in Endpoints : sdp_client_on_pdu(e)
    \/ \E e \in Endpoints : search_services_resume(e)
    \/ \E e \in Endpoints : peer_answers_with_continuation(e)

SpecWatchdog == InitWatchdog /\ [][NextWatchdog]_vars

(* The event loop runs every callback and coroutine that is ready, and the *)
(* peer answers every request.                                             *)
SpecWatchdogFair == SpecWatchdog /\ WF_vars(NextWatchdog)

---------------------------------------------------------------------------
(* sdp.Server: the search for the service records that match a pattern *)

Uuids == {1, 2}
ServiceRecordHandles == {1, 2}

(* DataElement.__init__: the pair of the element's type and value, and the *)
(* fields type and value of an element                                     *)
DataElement(type, value) == <<type, value>>
type_of(element) == element[1]
value_of(element) == element[2]

(* DataElement.uuid, unsigned_integer, sequence and alternative *)
DataElement_uuid(value) == DataElement("UUID", value)
DataElement_unsigned_integer(value) == DataElement("UNSIGNED_INTEGER", value)
DataElement_sequence(value) == DataElement("SEQUENCE", value)
DataElement_alternative(value) == DataElement("ALTERNATIVE", value)

(* The attribute values of the service records: a UUID, an integer, and    *)
(* sequences and alternatives of them, nested up to two levels             *)
UuidElements == {DataElement_uuid(uuid) : uuid \in Uuids}
NestedElements ==
    {DataElement_sequence(<<x>>) : x \in UuidElements}
        \cup {DataElement_alternative(<<x>>) : x \in UuidElements}
        \cup {DataElement_sequence(<<DataElement_uuid(1), DataElement_uuid(2)>>)}
AttributeValues ==
    UuidElements \cup {DataElement_unsigned_integer(1)} \cup NestedElements
        \cup {DataElement_sequence(<<x>>) : x \in NestedElements}

(* ServiceAttribute.__init__ *)
ServiceAttribute(id, value) == [id |-> id, value |-> value]

(* The services registered: lists of one attribute, or of two attributes   *)
(* with a UUID each                                                        *)
Services ==
    {<<ServiceAttribute(1, value)>> : value \in AttributeValues}
        \cup {<<ServiceAttribute(1, DataElement_uuid(1)),
                ServiceAttribute(2, DataElement_uuid(2))>>}

(* The search patterns: sequences of one or two UUIDs *)
SearchPatterns ==
    {DataElement_sequence(<<DataElement_uuid(1)>>),
     DataElement_sequence(<<DataElement_uuid(2)>>),
     DataElement_sequence(<<DataElement_uuid(1), DataElement_uuid(2)>>)}

(* ServiceAttribute.is_uuid_in_value *)
RECURSIVE is_uuid_in_value(_, _)
is_uuid_in_value(uuid, value) ==
    IF type_of(value) = "UUID" THEN value_of(value) = uuid
    ELSE IF type_of(value) = "SEQUENCE"
    THEN \E i \in DOMAIN value_of(value) : is_uuid_in_value(uuid, value_of(value)[i])
    ELSE FALSE

(* Server.match_services: for each record, the loop over the UUIDs of the  *)
(* pattern keeps the record and breaks at the first UUID that some         *)
(* attribute has.                                                          *)
Server_match_services(records, search_pattern) ==
    LET found(service, uuid) ==
            \E i \in DOMAIN service : is_uuid_in_value(value_of(uuid), service[i].value)
        matching ==
            {handle \in DOMAIN records :
                \E k \in DOMAIN value_of(search_pattern) :
                    found(records[handle], value_of(search_pattern)[k])}
    IN  [handle \in matching |-> records[handle]]

(* The server searches its records for the pattern of a request *)
server_match_services(search_pattern) ==
    /\ matching_services = None
    /\ matching_services' = Some([search_pattern |-> search_pattern,
                                  services |-> Server_match_services(service_records,
                                                                     search_pattern)])
    /\ UNCHANGED <<l2capVars, pendingVars, deviceVars, scanVars, service_records>>
    /\ UNCHANGED <<assemblerVars, linkVars, extraVars>>

(* A server with its records registered *)
InitMatch ==
    /\ InitL2cap("BR_EDR")
    /\ InitPending(FALSE)
    /\ InitDevice(FALSE)
    /\ InitScan(FALSE)
    /\ service_records \in [ServiceRecordHandles -> Services]
    /\ matching_services = None
    /\ InitAssembler
    /\ InitLink
    /\ InitExtra

NextMatch == \E search_pattern \in SearchPatterns : server_match_services(search_pattern)

SpecMatch == InitMatch /\ [][NextMatch]_vars

---------------------------------------------------------------------------
(* HCI_AclDataPacketAssembler: the reassembly of L2CAP PDUs from the HCI   *)
(* ACL data packets of a connection                                        *)

MaxPackets == 4

HCI_ACL_PB_FIRST_NON_FLUSHABLE == 0
HCI_ACL_PB_CONTINUATION == 1
HCI_ACL_PB_FIRST_FLUSHABLE == 2

HCI_AclDataPacket(pb_flag, data) == [pb_flag |-> pb_flag, data |-> data]

(* The packets of the controller: first fragments, which start with the    *)
(* length of the L2CAP PDU and its cid, of a whole PDU and of PDUs that    *)
(* lack 1 or 3 bytes, and continuations of 1 and 2 bytes                   *)
AclPackets ==
    {HCI_AclDataPacket(HCI_ACL_PB_FIRST_FLUSHABLE, data) :
         data \in {<<0, 0, 1, 0>>, <<1, 0, 1, 0>>, <<2, 0, 1, 0, 7>>, <<1, 0>>}}
        \cup {HCI_AclDataPacket(HCI_ACL_PB_FIRST_NON_FLUSHABLE, <<1, 0, 1, 0>>)}
        \cup {HCI_AclDataPacket(HCI_ACL_PB_CONTINUATION, data) : data \in {<<7>>, <<8, 9>>}}

(* What feed_packet does with current_data once the packet is taken in:    *)
(* pdus are the PDUs handed to the callback.                               *)
feed_packet_check(a) ==
    IF Len(a.current_data[1]) = a.l2cap_pdu_length + 4
    THEN [assembler |-> HCI_AclDataPacketAssembler, pdus |-> <<a.current_data[1]>>]
    ELSE IF Len(a.current_data[1]) > a.l2cap_pdu_length + 4
    THEN [assembler |-> HCI_AclDataPacketAssembler, pdus |-> <<>>]
    ELSE [assembler |-> a, pdus |-> <<>>]

(* A faulty feed_packet that starts a PDU with a continuation that has no  *)
(* first fragment                                                          *)
feed_packet_orphan(a, packet) ==
    IF packet.pb_flag \in {HCI_ACL_PB_FIRST_NON_FLUSHABLE, HCI_ACL_PB_FIRST_FLUSHABLE}
    THEN feed_packet_check([current_data |-> Some(packet.data),
                            l2cap_pdu_length |-> unpack_H(packet.data)])
    ELSE feed_packet_check([a EXCEPT !.current_data =
                                IF @ = None THEN Some(packet.data)
                                ELSE Some(@[1] \o packet.data)])

(* HCI_AclDataPacketAssembler.feed_packet *)
feed_packet(a, packet) ==
    IF packet.pb_flag \in {HCI_ACL_PB_FIRST_NON_FLUSHABLE, HCI_ACL_PB_FIRST_FLUSHABLE}
    THEN feed_packet_check([current_data |-> Some(packet.data),
                            l2cap_pdu_length |-> unpack_H(packet.data)])
    ELSE IF a.current_data = None
    THEN [assembler |-> a, pdus |-> <<>>]
    ELSE feed_packet_check([a EXCEPT !.current_data = Some(@[1] \o packet.data)])

(* The controller hands a packet of the connection to the assembler; at    *)
(* says after how many packets a PDU was handed to the callback.           *)
on_hci_acl_data_packet(packet) ==
    /\ Len(acl_packets) < MaxPackets
    /\ LET r == feed_packet(assembler, packet)
       IN  /\ assembler' = r.assembler
           /\ acl_packets' = Append(acl_packets, packet)
           /\ acl_pdus' = acl_pdus \o
                  [i \in DOMAIN r.pdus |-> [pdu |-> r.pdus[i], at |-> Len(acl_packets) + 1]]
    /\ UNCHANGED <<l2capVars, pendingVars, deviceVars, scanVars, matchVars, linkVars, extraVars>>

InitAcl ==
    /\ InitL2cap("BR_EDR")
    /\ InitPending(FALSE)
    /\ InitRest

NextAcl == \E packet \in AclPackets : on_hci_acl_data_packet(packet)

SpecAcl == InitAcl /\ [][NextAcl]_vars

---------------------------------------------------------------------------
(* A second connection between the two hosts, after both have seen the     *)
(* disconnection and the calls it woke have returned.  The connection has  *)
(* a handle of its own: the maps the managers key by handle (channels,     *)
(* le_coc_channels, identifiers) have no entry for it, while               *)
(* le_coc_requests, which is keyed by identifier alone, is as it was.      *)
connection_established ==
    /\ \A e \in Endpoints : ~connected[e]
    /\ \A e \in Endpoints : \A u \in DOMAIN calls[e] :
           /\ calls[e][u].connect \notin {"ok", "error"}
           /\ calls[e][u].disconnect # "ok"
    /\ connected' = [e \in Endpoints |-> TRUE]
    /\ UNCHANGED <<transport, link, chan, channels, le_coc_channels, le_coc_requests,
                   identifiers, calls, written, assembled, delivered, emitted, nwrites>>
    /\ UNCHANGED otherVars

NextReconnect ==
    \/ \E e \in Endpoints, spec \in LeClientSpecs : create_le_credit_based_channel(e, spec)
    \/ \E e \in Endpoints, u \in 1..(2 * MaxChannels) : create_le_credit_based_channel_return(e, u)
    \/ \E e \in Endpoints : on_l2cap_le_credit_based_connection_request(e)
    \/ \E e \in Endpoints : on_l2cap_le_credit_based_connection_response(e)
    \/ \E e \in Endpoints, u \in 1..(2 * MaxChannels) : le_disconnect(e, u)
    \/ NextShared
    \/ connection_established

SpecReconnect == InitLe /\ [][NextReconnect]_vars

---------------------------------------------------------------------------
(* LocalLink: the bus between the controllers of one process *)

MaxLinkCalls == 3

HCI_SUCCESS == 0
HCI_CONNECTION_ACCEPT_TIMEOUT_ERROR == 16

(* The addresses of the controllers on the link, and the addresses calls   *)
(* name: address 3 is the address of no controller                         *)
ControllerAddresses == {1, 2}
TargetAddresses == {1, 2, 3}

(* LocalLink.find_controller and find_classic_controller: 0 stands for None *)
find_controller(address) == IF address \in ControllerAddresses THEN address ELSE 0

(* The call of a handler of a controller: by the callback that call_soon   *)
(* scheduled, or within the call of the sender (synchronous)               *)
Handler(handler, receiver, from, status, synchronous) ==
    [handler |-> handler, controller |-> receiver, from |-> from,
     status |-> status, synchronous |-> synchronous]

(* A call on the link by the controller sender *)
LinkCall(op, sender, address) ==
    /\ Len(link_calls) < MaxLinkCalls
    /\ link_calls' = Append(link_calls, [op |-> op, sender |-> sender, address |-> address])

(* asyncio.get_running_loop().call_soon *)
call_soon(callback) == loop' = Append(loop, callback)

(* LocalLink.send_ll_control_pdu *)
send_ll_control_pdu(sender, receiver_address) ==
    /\ LinkCall("send_ll_control_pdu", sender, receiver_address)
    /\ IF find_controller(receiver_address) = 0
       THEN UNCHANGED loop     \* raise InvalidArgumentError
       ELSE call_soon(Handler("on_ll_control_pdu", find_controller(receiver_address),
                              sender, 0, FALSE))
    /\ UNCHANGED <<local_link, link_log>>
    /\ UNCHANGED <<l2capVars, pendingVars, deviceVars, scanVars, matchVars, assemblerVars, extraVars>>

(* LocalLink.send_advertising_data *)
send_advertising_data(sender_address) ==
    /\ LinkCall("send_advertising_data", sender_address, 0)
    /\ link_log' = link_log \o
           [i \in 1..Cardinality(ControllerAddresses \ {sender_address}) |->
               Handler("on_le_advertising_data",
                       CHOOSE c \in ControllerAddresses \ {sender_address} :
                           Cardinality({d \in ControllerAddresses \ {sender_address} : d < c}) = i - 1,
                       sender_address, 0, TRUE)]
    /\ UNCHANGED <<local_link, loop>>
    /\ UNCHANGED <<l2capVars, pendingVars, deviceVars, scanVars, matchVars, assemblerVars, extraVars>>

(* LocalLink.send_acl_data *)
send_acl_data(sender, destination_address) ==
    /\ LinkCall("send_acl_data", sender, destination_address)
    /\ IF find_controller(destination_address) = 0
       THEN UNCHANGED loop
       ELSE call_soon(Handler("on_acl_data", find_controller(destination_address),
                              sender, 0, FALSE))
    /\ UNCHANGED <<local_link, link_log>>
    /\ UNCHANGED <<l2capVars, pendingVars, deviceVars, scanVars, matchVars, assemblerVars, extraVars>>

(* LocalLink.send_lmp_packet *)
send_lmp_packet(sender, receiver_address) ==
    /\ LinkCall("send_lmp_packet", sender, receiver_address)
    /\ IF find_controller(receiver_address) = 0
       THEN UNCHANGED loop     \* raise InvalidArgumentError
       ELSE call_soon(Handler("on_lmp_packet", find_controller(receiver_address),
                              sender, 0, FALSE))
    /\ UNCHANGED <<local_link, link_log>>
    /\ UNCHANGED <<l2capVars, pendingVars, deviceVars, scanVars, matchVars, assemblerVars, extraVars>>

(* LocalLink.connect: the command is known by its peer_address *)
connect(central_address, peer_address) ==
    /\ LinkCall("connect", central_address, peer_address)
    /\ local_link' = [local_link EXCEPT
           !.pending_connection = Some(<<central_address, peer_address>>)]
    /\ call_soon(Handler("on_connection_complete", 0, 0, 0, FALSE))
    /\ UNCHANGED link_log
    /\ UNCHANGED <<l2capVars, pendingVars, deviceVars, scanVars, matchVars, assemblerVars, extraVars>>

(* LocalLink.on_connection_complete: the link after it and the handlers it *)
(* has called                                                              *)
on_connection_complete(l) ==
    IF l.pending_connection = None
    THEN [link |-> l, handlers |-> <<>>]
    ELSE LET central_address == l.pending_connection[1][1]
             peer_address == l.pending_connection[1][2]
             cleared == [l EXCEPT !.pending_connection = None]
         IN  IF find_controller(central_address) = 0
             THEN [link |-> cleared, handlers |-> <<>>]
             ELSE IF find_controller(peer_address) # 0
             THEN [link |-> cleared,
                   handlers |-> <<Handler("on_le_peripheral_connection_complete",
                                          find_controller(central_address),
                                          peer_address, HCI_SUCCESS, FALSE),
                                  Handler("on_le_central_connected",
                                          find_controller(peer_address),
                                          central_address, HCI_SUCCESS, FALSE)>>]
             ELSE [link |-> cleared,
                   handlers |-> <<Handler("on_le_peripheral_connection_complete",
                                          find_controller(central_address),
                                          peer_address,
                                          HCI_CONNECTION_ACCEPT_TIMEOUT_ERROR, FALSE)>>]

(* The event loop runs the callback that was scheduled first *)
run_callback ==
    /\ loop # <<>>
    /\ loop' = Tail(loop)
    /\ IF Head(loop).handler = "on_connection_complete"
       THEN LET r == on_connection_complete(local_link)
            IN  /\ local_link' = r.link
                /\ link_log' = link_log \o r.handlers
       ELSE /\ link_log' = Append(link_log, Head(loop))
            /\ UNCHANGED local_link
    /\ UNCHANGED link_calls
    /\ UNCHANGED <<l2capVars, pendingVars, deviceVars, scanVars, matchVars, assemblerVars, extraVars>>

InitLocalLink ==
    /\ InitL2cap("LE")
    /\ InitPending(FALSE)
    /\ InitRest

NextLocalLink ==
    \/ \E sender \in ControllerAddresses, address \in TargetAddresses : send_ll_control_pdu(sender, address)
    \/ \E sender \in ControllerAddresses : send_advertising_data(sender)
    \/ \E sender \in ControllerAddresses, address \in TargetAddresses : send_acl_data(sender, address)
    \/ \E sender \in ControllerAddresses, address \in TargetAddresses : send_lmp_packet(sender, address)
    \/ \E central \in ControllerAddresses, address \in TargetAddresses : connect(central, address)
    \/ run_callback

SpecLocalLink == InitLocalLink /\ [][NextLocalLink]_vars

---------------------------------------------------------------------------
(* ClassicChannel in Enhanced Retransmission Mode: the two ends of one     *)
(* open channel, each with a sink, after a configuration that carried the  *)
(* option RETRANSMISSION_AND_FLOW_CONTROL                                  *)

MaxErtmWrites == 2

(* The window sizes and the MPS of the configuration, and the sizes of the *)
(* SDUs the applications write: one, two and three I-frames                *)
ErtmWindows == {2, 4}
ErtmMps == {3, 4}
ErtmSizes == {2, 6, 9}

(* a | b and a & b on bytes *)
RECURSIVE bit_or(_, _)
bit_or(a, b) ==
    IF a = 0 THEN b
    ELSE IF b = 0 THEN a
    ELSE (IF a % 2 = 1 \/ b % 2 = 1 THEN 1 ELSE 0) + 2 * bit_or(a \div 2, b \div 2)
RECURSIVE bit_and(_, _)
bit_and(a, b) ==
    IF a = 0 \/ b = 0 THEN 0
    ELSE (IF a % 2 = 1 /\ b % 2 = 1 THEN 1 ELSE 0) + 2 * bit_and(a \div 2, b \div 2)

I_FRAME == 0
S_FRAME == 1
SAR_UNSEGMENTED == 0
SAR_START == 1
SAR_END == 2
SAR_CONTINUATION == 3
SupervisoryFunction_RR == 0

(* IFrameStandardControlField.__bytes__ *)
IFrame_bytes(tx_seq, r, req_seq, sar) ==
    <<bit_or(bit_or(I_FRAME, tx_seq * 2), r * 128), bit_or(req_seq, sar * 64)>>

(* SFrameStandardControlField.__bytes__ *)
SFrame_bytes(s, r, req_seq, sar) ==
    <<bit_or(bit_or(S_FRAME, s * 4), r * 128), bit_or(req_seq, sar * 64)>>

(* StandardControlField.from_bytes *)
StandardControlField_from_bytes(data) ==
    IF bit_and(data[1], 1) = I_FRAME
    THEN [frame_type |-> I_FRAME,
          tx_seq |-> bit_and(data[1], 126) \div 2,
          r |-> bit_and(data[1], 126) \div 2,
          req_seq |-> bit_and(data[2], 127),
          sar |-> bit_and(data[2], 192) \div 64]
    ELSE [frame_type |-> S_FRAME,
          s |-> bit_and(data[1], 12) \div 4,
          r |-> bit_and(data[1], 128) \div 128,
          req_seq |-> bit_and(data[2], 127),
          sar |-> bit_and(data[2], 192) \div 64]

(* compute_fcs: two bytes that depend on the buffer; the table of the CRC  *)
(* is not modelled, and no receiver checks the value                       *)
RECURSIVE Sum(_)
Sum(buffer) == IF buffer = <<>> THEN 0 ELSE Head(buffer) + Sum(Tail(buffer))
compute_fcs(buffer) == pack_H(Sum(buffer))

(* ChannelManager.send_pdu with_fcs, L2CAP_PDU.__bytes__ and, at the other *)
(* end, L2CAP_PDU.from_bytes: the payload the peer's on_pdu is given       *)
pdu_with_fcs(payload) == payload \o compute_fcs(payload)

(* The segments write cuts the data into: at most peer_mps bytes each *)
RECURSIVE segments(_, _)
segments(data, peer_mps) ==
    IF data = <<>> THEN <<>>
    ELSE <<Take(data, peer_mps)>> \o segments(Drop(data, peer_mps), peer_mps)

(* ClassicChannel.write in Enhanced Retransmission Mode: the channel after *)
(* it and the PDUs it sent                                                 *)
ertm_write(c, data) ==
    LET segs == IF Len(data) <= c.peer_mps THEN <<data>> ELSE segments(data, c.peer_mps)
        sar(i) == IF Len(data) <= c.peer_mps THEN SAR_UNSEGMENTED
                  ELSE IF i = 1 THEN SAR_START
                  ELSE IF i = Len(segs) THEN SAR_END
                  ELSE SAR_CONTINUATION
    IN  [c |-> [c EXCEPT !.tx_seq = (c.tx_seq + Len(segs)) % 64,
                         !.last_acked_seq = c.req_seq],
         out |-> [i \in 1..Len(segs) |->
                    pdu_with_fcs(IFrame_bytes((c.tx_seq + i - 1) % 64, 0, c.req_seq, sar(i))
                                 \o segs[i])]]

(* pdu[a:-2] *)
slice(pdu, a) == SubSeq(pdu, a + 1, Len(pdu) - 2)

(* ClassicChannel.on_pdu in Enhanced Retransmission Mode, with a sink: the *)
(* channel after it, what the sink was called with and the PDUs sent       *)
ertm_on_pdu(c, pdu) ==
    LET control_field == StandardControlField_from_bytes(Take(pdu, 2))
    IN  IF control_field.frame_type # I_FRAME
        THEN [c |-> c, sdu |-> None, out |-> <<>>]
        ELSE LET req_seq == control_field.tx_seq + 1
                 started == IF control_field.sar = SAR_START
                            THEN c.pending_sdu \o slice(pdu, 4)
                            ELSE c.pending_sdu
                 ended == control_field.sar \in {SAR_UNSEGMENTED, SAR_END}
                 tx_seq == IF control_field.tx_seq < c.last_acked_seq
                           THEN control_field.tx_seq + 64
                           ELSE control_field.tx_seq
                 ack == (tx_seq - c.last_acked_seq) > c.rx_credits_threshold
             IN  [c |-> [c EXCEPT !.req_seq = req_seq,
                                  !.pending_sdu = IF ended THEN <<>> ELSE started,
                                  !.last_acked_seq = IF ack THEN req_seq ELSE @],
                  sdu |-> IF ended THEN Some(started \o slice(pdu, 2)) ELSE None,
                  out |-> IF ack
                          THEN <<pdu_with_fcs(SFrame_bytes(SupervisoryFunction_RR, 0,
                                                           req_seq, SAR_UNSEGMENTED))>>
                          ELSE <<>>]

(* The application of host e writes an SDU of n bytes *)
ertm_channel_write(e, n) ==
    /\ Len(ertm_written[1]) + Len(ertm_written[2]) < MaxErtmWrites
    /\ LET data == Bytes(e, Len(ertm_written[e]) + 1, n)
           r == ertm_write(ertm[e], data)
       IN  /\ ertm' = [ertm EXCEPT ![e] = r.c]
           /\ ertm_link' = [ertm_link EXCEPT ![Peer(e)] = @ \o r.out]
           /\ ertm_written' = [ertm_written EXCEPT ![e] = Append(@, data)]
    /\ UNCHANGED ertm_delivered
    /\ UNCHANGED <<l2capVars, pendingVars, deviceVars, scanVars, matchVars, assemblerVars, linkVars, cocVars, sdpMultiVars>>

(* ChannelManager.on_pdu hands the PDU at the head of the queue of host e  *)
(* to the channel                                                          *)
ertm_channel_on_pdu(e) ==
    /\ ertm_link[e] # <<>>
    /\ LET r == ertm_on_pdu(ertm[e], Head(ertm_link[e]))
       IN  /\ ertm' = [ertm EXCEPT ![e] = r.c]
           /\ ertm_link' = [ertm_link EXCEPT ![e] = Tail(@),
                                             ![Peer(e)] = @ \o r.out]
           /\ ertm_delivered' = [ertm_delivered EXCEPT ![e] = @ \o r.sdu]
    /\ UNCHANGED ertm_written
    /\ UNCHANGED <<l2capVars, pendingVars, deviceVars, scanVars, matchVars, assemblerVars, linkVars, cocVars, sdpMultiVars>>

InitErtmChannels ==
    /\ InitL2cap("BR_EDR")
    /\ InitPending(FALSE)
    /\ InitDevice(FALSE)
    /\ InitScan(FALSE)
    /\ InitSearch
    /\ InitAssembler
    /\ InitLink
    /\ \E tx_window_size \in ErtmWindows, peer_mps \in ErtmMps : InitErtm(tx_window_size, peer_mps)
    /\ InitCoc
    /\ InitSdpMulti

NextErtm ==
    \/ \E e \in Endpoints, n \in ErtmSizes : ertm_channel_write(e, n)
    \/ \E e \in Endpoints : ertm_channel_on_pdu(e)

SpecErtm == InitErtmChannels /\ [][NextErtm]_vars

---------------------------------------------------------------------------
(* One ChannelManager with two LE connections: the LE Credit Based         *)
(* Connection Requests it sends on them and the responses of the peers.    *)
(* The maps channels and identifiers are keyed by the connection handle,   *)
(* le_coc_requests by the identifier of the request alone.                 *)

MaxCocCalls == 3

(* A call of create_le_credit_based_channel on connection handle: the      *)
(* identifier and the source cid of its request, whether it awaits, has    *)
(* raised or was completed, and the connection and identifier of the       *)
(* response that completed it                                              *)
CocCall(handle, identifier, source_cid, status) ==
    [handle |-> handle, identifier |-> identifier, source_cid |-> source_cid,
     status |-> status, response |-> None]

(* ChannelManager.create_le_credit_based_channel up to its await, with     *)
(* LeCreditBasedChannel.connect, on connection handle                      *)
coc_create_le_credit_based_channel(handle) ==
    /\ Len(coc_calls) < MaxCocCalls
    /\ LET source_cid == find_free_le_cid(DOMAIN coc_manager.channels[handle])
           identifier == (coc_manager.identifiers[handle] + 1) % 256
           k == Len(coc_calls) + 1
       IN  /\ source_cid # 0
           /\ IF identifier \in DOMAIN coc_manager.le_coc_requests
              THEN \* connect raises InvalidStateError: the channel is dropped
                   /\ coc_manager' = [coc_manager EXCEPT !.identifiers[handle] = identifier]
                   /\ coc_calls' = Append(coc_calls,
                          CocCall(handle, identifier, source_cid, "raised"))
                   /\ UNCHANGED coc_link
              ELSE /\ coc_manager' = [coc_manager EXCEPT
                          !.identifiers[handle] = identifier,
                          !.channels[handle] = Put(@, source_cid, k),
                          !.le_coc_requests = Put(@, identifier,
                              [identifier |-> identifier, source_cid |-> source_cid])]
                   /\ coc_calls' = Append(coc_calls,
                          CocCall(handle, identifier, source_cid, "awaiting"))
                   /\ coc_link' = [coc_link EXCEPT ![handle].to_peer =
                          Append(@, [identifier |-> identifier, source_cid |-> source_cid])]
    /\ UNCHANGED <<l2capVars, pendingVars, deviceVars, scanVars, matchVars, assemblerVars, linkVars, ertmVars, sdpMultiVars>>

(* The peer of connection handle accepts the request at the head of its    *)
(* queue: its response carries the identifier of the request               *)
coc_peer_accepts(handle) ==
    /\ coc_link[handle].to_peer # <<>>
    /\ LET request == Head(coc_link[handle].to_peer)
       IN  coc_link' = [coc_link EXCEPT
               ![handle].to_peer = Tail(@),
               ![handle].to_host = Append(@, [identifier |-> request.identifier,
                                              destination_cid |-> request.source_cid,
                                              result |-> LE_CONNECTION_SUCCESSFUL])]
    /\ UNCHANGED <<coc_manager, coc_calls>>
    /\ UNCHANGED <<l2capVars, pendingVars, deviceVars, scanVars, matchVars, assemblerVars, linkVars, ertmVars, sdpMultiVars>>

(* ChannelManager.on_l2cap_le_credit_based_connection_response for the     *)
(* response at the head of the queue of connection handle, with            *)
(* LeCreditBasedChannel.on_connection_response                             *)
coc_on_l2cap_le_credit_based_connection_response(handle) ==
    /\ coc_link[handle].to_host # <<>>
    /\ LET response == Head(coc_link[handle].to_host)
           known == response.identifier \in DOMAIN coc_manager.le_coc_requests
           request == coc_manager.le_coc_requests[response.identifier]
           found == known /\ request.source_cid \in DOMAIN coc_manager.channels[handle]
           k == coc_manager.channels[handle][request.source_cid]
       IN  /\ coc_link' = [coc_link EXCEPT ![handle].to_host = Tail(@)]
           /\ coc_manager' = [coc_manager EXCEPT !.le_coc_requests =
                  IF known THEN Remove(@, response.identifier) ELSE @]
           /\ coc_calls' =
                  IF found /\ coc_calls[k].status = "awaiting"
                  THEN [coc_calls EXCEPT
                           ![k].status = "ok",
                           ![k].response = Some([handle |-> handle,
                                                 identifier |-> response.identifier])]
                  ELSE coc_calls
    /\ UNCHANGED <<l2capVars, pendingVars, deviceVars, scanVars, matchVars, assemblerVars, linkVars, ertmVars, sdpMultiVars>>

InitCocManager ==
    /\ InitL2cap("LE")
    /\ InitPending(FALSE)
    /\ InitRest

NextCoc ==
    \/ \E handle \in CocHandles : coc_create_le_credit_based_channel(handle)
    \/ \E handle \in CocHandles : coc_peer_accepts(handle)
    \/ \E handle \in CocHandles : coc_on_l2cap_le_credit_based_connection_response(handle)

SpecCoc == InitCocManager /\ [][NextCoc]_vars

---------------------------------------------------------------------------
(* One sdp.Server and two clients, each on a connection of its own: the    *)
(* channel c is the channel to SDP_PSM that client c opened.  The server   *)
(* object is the one Server.register gave the channel manager, for every   *)
(* connection.                                                             *)

(* A PDU on a channel; request_channel says on which channel the request   *)
(* it belongs to arrived                                                   *)
SdpPdu(request_channel, pdu) == [request_channel |-> request_channel, pdu |-> pdu]

(* ChannelManager.on_l2cap_connection_request for SDP_PSM on the           *)
(* connection of client c, with Server.on_connection; the client's connect *)
(* returns                                                                 *)
sdp_multi_on_connection(c) ==
    /\ sdp_multi_clients[c].status = "closed"
    /\ sdp_multi_server' = on_connection(sdp_multi_server, c)
    /\ sdp_multi_clients' = [sdp_multi_clients EXCEPT ![c].status = "connected"]
    /\ UNCHANGED sdp_multi_link
    /\ UNCHANGED <<l2capVars, pendingVars, deviceVars, scanVars, matchVars, assemblerVars, linkVars, ertmVars, cocVars>>

(* sdp.Client.search_services of client c up to its first await *)
sdp_multi_search_services(c) ==
    /\ sdp_multi_clients[c].status = "connected"
    /\ sdp_multi_clients' = [sdp_multi_clients EXCEPT ![c].status = "searching"]
    /\ sdp_multi_link' = [sdp_multi_link EXCEPT ![c].to_server =
           Append(@, SdpPdu(c, SDP_ServiceSearchRequest(0, 65535, NoContinuation)))]
    /\ UNCHANGED sdp_multi_server
    /\ UNCHANGED <<l2capVars, pendingVars, deviceVars, scanVars, matchVars, assemblerVars, linkVars, ertmVars, cocVars>>

(* sdp.Server.on_pdu for the request at the head of the queue of channel   *)
(* c: send_response writes to self.channel                                 *)
sdp_multi_server_on_pdu(c) ==
    /\ sdp_multi_link[c].to_server # <<>>
    /\ LET request == Head(sdp_multi_link[c].to_server).pdu
           r == on_sdp_service_search_request(sdp_multi_server, request,
                                              L2CAP_MIN_BR_EDR_MTU)
           channel == sdp_multi_server.channel
       IN  /\ sdp_multi_server' = r.server
           /\ sdp_multi_link' =
                  [d \in SdpChannels |->
                      [to_server |-> IF d = c THEN Tail(sdp_multi_link[d].to_server)
                                     ELSE sdp_multi_link[d].to_server,
                       to_client |-> IF d = channel
                                     THEN Append(sdp_multi_link[d].to_client,
                                                 SdpPdu(c, r.response))
                                     ELSE sdp_multi_link[d].to_client]]
    /\ UNCHANGED sdp_multi_clients
    /\ UNCHANGED <<l2capVars, pendingVars, deviceVars, scanVars, matchVars, assemblerVars, linkVars, ertmVars, cocVars>>

(* ClassicChannel.on_pdu of channel c at its client, and the loop of       *)
(* sdp.Client.search_services: a response that no request awaits is        *)
(* dropped                                                                 *)
sdp_multi_client_on_pdu(c) ==
    /\ sdp_multi_link[c].to_client # <<>>
    /\ LET response == Head(sdp_multi_link[c].to_client).pdu
           client == sdp_multi_clients[c]
           handles == client.service_record_handle_list
                          \o response.service_record_handle_list
       IN  IF client.status # "searching"
           THEN /\ sdp_multi_link' = [sdp_multi_link EXCEPT ![c].to_client = Tail(@)]
                /\ UNCHANGED sdp_multi_clients
           ELSE IF response.pdu_id # "SDP_SERVICE_SEARCH_RESPONSE"
           THEN /\ sdp_multi_link' = [sdp_multi_link EXCEPT ![c].to_client = Tail(@)]
                /\ sdp_multi_clients' = [sdp_multi_clients EXCEPT ![c].status = "raised"]
           ELSE IF Len(response.continuation_state) > 1
           THEN /\ sdp_multi_link' = [sdp_multi_link EXCEPT
                       ![c].to_client = Tail(@),
                       ![c].to_server = Append(@, SdpPdu(c, SDP_ServiceSearchRequest(
                                            0, 65535, response.continuation_state)))]
                /\ sdp_multi_clients' = [sdp_multi_clients EXCEPT
                       ![c].service_record_handle_list = handles]
           ELSE /\ sdp_multi_link' = [sdp_multi_link EXCEPT ![c].to_client = Tail(@)]
                /\ sdp_multi_clients' = [sdp_multi_clients EXCEPT
                       ![c].service_record_handle_list = handles,
                       ![c].status = "returned"]
    /\ UNCHANGED sdp_multi_server
    /\ UNCHANGED <<l2capVars, pendingVars, deviceVars, scanVars, matchVars, assemblerVars, linkVars, ertmVars, cocVars>>

InitSdpClients ==
    /\ InitL2cap("BR_EDR")
    /\ InitPending(FALSE)
    /\ InitRest

NextSdpMulti ==
    \/ \E c \in SdpChannels : sdp_multi_on_connection(c)
    \/ \E c \in SdpChannels : sdp_multi_search_services(c)
    \/ \E c \in SdpChannels : sdp_multi_server_on_pdu(c)
    \/ \E c \in SdpChannels : sdp_multi_client_on_pdu(c)

SpecSdpMulti == InitSdpClients /\ [][NextSdpMulti]_vars

---------------------------------------------------------------------------
(* Two hosts that open classic channels and do nothing else: no PDU is     *)
(* lost, the connection stays up and nobody disconnects.                   *)

(* One turn of the event loop of host e: the handler of the signaling      *)
(* frame at the head of its queue, or a create_classic_channel that        *)
(* resumes after its await                                                 *)
establish_loop(e) ==
    \/ on_l2cap_connection_request(e)
    \/ on_l2cap_connection_response(e)
    \/ on_l2cap_configure_request(e)
    \/ on_l2cap_configure_response(e)
    \/ \E u \in 1..(2 * MaxChannels) : create_classic_channel_return(e, u)

NextEstablish ==
    \/ \E e \in Endpoints, spec \in ClassicClientSpecs : create_classic_channel(e, spec)
    \/ \E e \in Endpoints : on_l2cap_connection_request(e)
    \/ \E e \in Endpoints : on_l2cap_connection_response(e)
    \/ \E e \in Endpoints : on_l2cap_configure_request(e)
    \/ \E e \in Endpoints : on_l2cap_configure_response(e)
    \/ \E e \in Endpoints, u \in 1..(2 * MaxChannels) : create_classic_channel_return(e, u)

SpecEstablish == InitClassic /\ [][NextEstablish]_vars

(* The event loop of each host runs every callback and coroutine that is   *)
(* ready (asyncio runs ready handles in turn).                             *)
SpecEstablishFair ==
    SpecEstablish /\ \A e \in Endpoints : WF_vars(establish_loop(e))

---------------------------------------------------------------------------
(* A Device that advertises and stops advertising, and the connections to  *)
(* it that come and go                                                     *)

(* The application awaits Device.stop_advertising once the calls of        *)
(* start_advertising it made have returned: the coroutine runs to its      *)
(* await of send_command, or to its end when the Device is not advertising *)
device_stop_advertising ==
    /\ Cardinality(AppCalls) < MaxDeviceCalls
    /\ \A t \in AppCalls : tasks[t].op = "start_advertising" => tasks[t].pc = "done"
    /\ IF device.advertising
       THEN /\ tasks' = Append(tasks, [Task("stop_advertising") EXCEPT !.pc = "stop"])
            /\ SendCommand(Len(tasks) + 1, "HCI_LE_Set_Advertising_Enable", 0)
       ELSE /\ tasks' = Append(tasks, [Task("stop_advertising") EXCEPT !.pc = "done"])
            /\ UNCHANGED <<controller, hci_commands>>
    /\ UNCHANGED <<device, raised>>
    /\ UNCHANGED <<l2capVars, pendingVars, scanVars, moreVars>>

(* Device.stop_advertising after its await, lines 934-937 *)
device_stop_advertising_return(t) ==
    /\ t \in DOMAIN tasks
    /\ tasks[t].op = "stop_advertising"
    /\ tasks[t].pc = "stop"
    /\ tasks[t].response # None
    /\ device' = [device EXCEPT !.advertising = FALSE,
                                !.advertising_type = None,
                                !.auto_restart_advertising = FALSE]
    /\ tasks' = [tasks EXCEPT ![t].pc = "done", ![t].response = None]
    /\ UNCHANGED <<controller, hci_commands, raised>>
    /\ UNCHANGED <<l2capVars, pendingVars, scanVars, moreVars>>

NextAdvertising ==
    \/ \E args \in StartAdvertisingArgs : device_start_advertising(args)
    \/ \E t \in DOMAIN tasks : device_start_advertising_start(t)
    \/ \E t \in DOMAIN tasks : device_start_advertising_resume(t)
    \/ device_stop_advertising
    \/ \E t \in DOMAIN tasks : device_stop_advertising_return(t)
    \/ \E h \in Handles, t \in {"LE", "BR_EDR"}, r \in {"CENTRAL", "PERIPHERAL"} : device_on_connection(h, t, r)
    \/ \E t \in DOMAIN tasks : device_new_connection(t)
    \/ \E t \in DOMAIN tasks : device_new_connection_return(t)
    \/ \E h \in Handles : device_on_disconnection(h)
    \/ controller_command

SpecAdvertising == InitDevices /\ [][NextAdvertising]_vars

---------------------------------------------------------------------------
(* Properties *)

(* The channel objects of class LeCreditBasedChannel and ClassicChannel *)
LeChannels == {p \in Endpoints \X (1..(2 * MaxChannels)) :
                   /\ p[2] \in DOMAIN chan[p[1]]
                   /\ chan[p[1]][p[2]].kind = "le"}
ClassicChannels == {p \in Endpoints \X (1..(2 * MaxChannels)) :
                        /\ p[2] \in DOMAIN chan[p[1]]
                        /\ chan[p[1]][p[2]].kind = "classic"}

(* C1: whatever writes, K-frames and LE Flow Control Credit frames an LE   *)
(* credit-based channel has taken, its credits are between 0 and 65535     *)
(* and its peer_credits between 0 and peer_max_credits.                    *)
C1_CreditsWithinLimits ==
    \A p \in LeChannels :
        LET c == chan[p[1]][p[2]]
        IN  /\ 0 <= c.credits
            /\ c.credits <= L2CAP_LE_CREDIT_BASED_CONNECTION_MAX_CREDITS
            /\ 0 <= c.peer_credits
            /\ c.peer_credits <= c.peer_max_credits


(* The two ends of one LE credit-based channel: p sends to q *)
Ch(p) == chan[p[1]][p[2]]
LePairs ==
    {pq \in LeChannels \X LeChannels :
        /\ pq[2][1] = Peer(pq[1][1])
        /\ Ch(pq[2]).source_cid = Ch(pq[1]).destination_cid
        /\ Ch(pq[2]).destination_cid = Ch(pq[1]).source_cid}

IsKFrame(pdu, cid) == pdu.cid = cid

(* The K-frames in flight towards the channel q *)
KFramesInFlight(q) ==
    Cardinality({i \in DOMAIN link[q[1]] : IsKFrame(link[q[1]][i], Ch(q).source_cid)})

(* The credits in flight towards the channel p *)
RECURSIVE SumCredits(_, _)
SumCredits(pdus, cid) ==
    IF pdus = <<>> THEN 0
    ELSE (IF IsCredit(Head(pdus)) /\ Head(pdus).payload.cid = cid
          THEN Head(pdus).payload.credits ELSE 0)
         + SumCredits(Tail(pdus), cid)
CreditsInFlight(p) == SumCredits(link[p[1]], Ch(p).destination_cid)

(* The channel q had its sink whenever a PDU came for it *)
NothingDropped(q) == emitted[q[1]][q[2]].no_sink = 0

(* C2: an SDU of up to peer_mtu bytes that a channel sends as K-frames of  *)
(* up to peer_mps bytes reaches the sink of the receiving channel as one   *)
(* SDU with the same bytes: what a receiver that had its sink has          *)
(* delivered are the first SDUs the sender built, and all of them once     *)
(* every K-frame of a sender that is still connected has arrived.          *)
C2_SduReassembled ==
    \A pq \in LePairs :
        LET p == pq[1]
            q == pq[2]
        IN  NothingDropped(q) =>
                /\ IsPrefix(delivered[q[1]][q[2]], assembled[p[1]][p[2]])
                /\ \A i \in DOMAIN assembled[p[1]][p[2]] :
                       /\ Len(assembled[p[1]][p[2]][i]) >= 1
                       /\ Len(assembled[p[1]][p[2]][i]) <= Ch(p).peer_mtu
                /\ (connected[q[1]] /\ Ch(p).state = "CONNECTED"
                        /\ Ch(p).out_sdu = None /\ KFramesInFlight(q) = 0)
                       => delivered[q[1]][q[2]] = assembled[p[1]][p[2]]

(* An SDU of more than one K-frame has been delivered whole *)
C2_Witness ==
    \E pq \in LePairs :
        /\ NothingDropped(pq[2])
        /\ delivered[pq[2][1]][pq[2][2]] # <<>>
        /\ delivered[pq[2][1]][pq[2][2]] = assembled[pq[1][1]][pq[1][2]]
        /\ Len(delivered[pq[2][1]][pq[2][2]][1]) + 2 > Ch(pq[1]).peer_mps


(* The bytes a channel still has to send *)
Pending(c) == Flatten(c.out_queue)

(* C3: a write on a connected LE credit-based channel that has no credits  *)
(* sends nothing and queues the data behind what is already queued; no     *)
(* byte written to a connected channel is lost, each is in an SDU built or *)
(* still queued; and when credits come to a channel with bytes to send, it *)
(* sends a K-frame.                                                        *)
C3_WriteQueues(p) ==
    (/\ Ch(p).state = "CONNECTED"
     /\ Ch(p).credits = 0
     /\ written'[p[1]][p[2]] # written[p[1]][p[2]])
    => /\ link' = link
       /\ chan'[p[1]][p[2]] =
              [Ch(p) EXCEPT !.out_queue = Append(@, written'[p[1]][p[2]][Len(written'[p[1]][p[2]])]),
                            !.drained = FALSE]

C3_CreditsSend(p) ==
    (/\ on_l2cap_le_flow_control_credit(p[1])
     /\ Head(link[p[1]]).payload.credits > 0
     /\ find_le_coc_channel(p[1], Head(link[p[1]]).payload.cid) = p[2]
     /\ (Ch(p).out_sdu # None \/ Pending(Ch(p)) # <<>>)
     /\ connected[Peer(p[1])])
    => /\ Len(link'[Peer(p[1])]) > Len(link[Peer(p[1])])
       /\ link'[Peer(p[1])][Len(link[Peer(p[1])]) + 1].cid = Ch(p).destination_cid
       /\ chan'[p[1]][p[2]].credits < Ch(p).credits + Head(link[p[1]]).payload.credits

C3_NothingLost ==
    \A p \in LeChannels :
        Ch(p).state = "CONNECTED" =>
            Flatten(written[p[1]][p[2]])
                = Flatten(assembled[p[1]][p[2]]) \o Pending(Ch(p))

C3_ZeroCreditWrite ==
    /\ []C3_NothingLost
    /\ [][\A p \in LeChannels : C3_WriteQueues(p) /\ C3_CreditsSend(p)]_vars

(* A write made without credits is queued whole on a connected channel *)
C3_Witness ==
    \E p \in LeChannels :
        /\ Ch(p).state = "CONNECTED"
        /\ Ch(p).credits = 0
        /\ written[p[1]][p[2]] # <<>>
        /\ Ch(p).out_queue # <<>>
        /\ Len(Ch(p).out_queue[Len(Ch(p).out_queue)]) > 0
        /\ Ch(p).out_queue[Len(Ch(p).out_queue)]
               = written[p[1]][p[2]][Len(written[p[1]][p[2]])]

(* C4: a K-frame costs its sender one credit and none is sent without:     *)
(* the credits of a channel are never negative, and together with its      *)
(* K-frames and the credits on their way they are what the receiver        *)
(* counts as peer_credits, or less when PDUs were lost; so no K-frame      *)
(* comes to a receiver of this implementation whose peer_credits is zero.  *)
C4_CreditPerKFrame ==
    \A pq \in LePairs :
        LET p == pq[1]
            q == pq[2]
            spent == Ch(p).credits + KFramesInFlight(q) + CreditsInFlight(p)
        IN  /\ Ch(p).credits >= 0
            /\ spent <= Ch(q).peer_credits
            /\ (NothingDropped(q) /\ connected[p[1]] /\ connected[q[1]]
                    /\ Ch(p).state # "CONNECTING")
                   => spent = Ch(q).peer_credits
            /\ KFramesInFlight(q) > 0 => Ch(q).peer_credits > 0
            /\ emitted[q[1]][q[2]].out_of_credits = 0

(* A channel has spent all its credits on K-frames that are on their way *)
C4_Witness ==
    \E pq \in LePairs :
        /\ Ch(pq[1]).credits = 0
        /\ Ch(pq[1]).out_sdu # None
        /\ KFramesInFlight(pq[2]) = Ch(pq[2]).peer_credits
        /\ KFramesInFlight(pq[2]) > 0

(* C5: the bytes the sink of a channel has been given are, in order, the   *)
(* first bytes written to the channel at the other end, whatever the order *)
(* in which credits and PDUs arrived.                                      *)
C5_WriteOrder ==
    \A pq \in LePairs :
        NothingDropped(pq[2]) =>
            IsPrefix(Flatten(delivered[pq[2][1]][pq[2][2]]),
                     Flatten(written[pq[1][1]][pq[1][2]]))

(* Two writes on one channel have both reached the sink at the other end *)
C5_Witness ==
    \E pq \in LePairs :
        /\ NothingDropped(pq[2])
        /\ Len(written[pq[1][1]][pq[1][2]]) = 2
        /\ written[pq[1][1]][pq[1][2]][1] # <<>>
        /\ written[pq[1][1]][pq[1][2]][2] # <<>>
        /\ Flatten(delivered[pq[2][1]][pq[2][2]]) = Flatten(written[pq[1][1]][pq[1][2]])


(* C6: a classic channel is in OPEN, or has emitted 'open', only when it   *)
(* has answered a Configure Request of its peer and has taken a Success    *)
(* Configure Response to a Configure Request of its own.                   *)
C6_OpenAfterConfiguration ==
    \A p \in ClassicChannels :
        (Ch(p).state = "OPEN" \/ emitted[p[1]][p[2]].open > 0) =>
            /\ emitted[p[1]][p[2]].config_sent >= 1
            /\ emitted[p[1]][p[2]].config_answered >= 1
            /\ emitted[p[1]][p[2]].config_accepted >= 1

(* The channels at both ends are open *)
C6_Witness ==
    /\ \E p \in ClassicChannels : p[1] = 1 /\ Ch(p).state = "OPEN"
    /\ \E q \in ClassicChannels : q[1] = 2 /\ Ch(q).state = "OPEN"

(* The channels host e has opened towards a PSM its peer serves, and the   *)
(* channels it has made for the requests of its peer, in order of creation *)
ClientSeq(e) ==
    SelectSeq([u \in 1..Len(chan[e]) |-> u],
              LAMBDA u : /\ calls[e][u].connect # "none"
                         /\ chan[e][u].kind = "classic"
                         /\ chan[e][u].psm \in DOMAIN servers(Peer(e)))
ServerSeq(e) ==
    SelectSeq([u \in 1..Len(chan[e]) |-> u],
              LAMBDA u : calls[e][u].connect = "none" /\ chan[e][u].kind = "classic")

(* The two ends of one classic channel: the k-th request of a host is      *)
(* served by the k-th channel its peer makes                               *)
ClassicPairs ==
    {pq \in ClassicChannels \X ClassicChannels :
        /\ pq[2][1] = Peer(pq[1][1])
        /\ \/ \E k \in 1..Len(ServerSeq(pq[2][1])) :
                  /\ k <= Len(ClientSeq(pq[1][1]))
                  /\ ClientSeq(pq[1][1])[k] = pq[1][2]
                  /\ ServerSeq(pq[2][1])[k] = pq[2][2]
           \/ \E k \in 1..Len(ServerSeq(pq[1][1])) :
                  /\ k <= Len(ClientSeq(pq[2][1]))
                  /\ ClientSeq(pq[2][1])[k] = pq[2][2]
                  /\ ServerSeq(pq[1][1])[k] = pq[1][2]}

IsDisconnection(pdu) ==
    IF pdu.cid = L2CAP_SIGNALING_CID
    THEN pdu.payload.code \in {"L2CAP_DISCONNECTION_REQUEST", "L2CAP_DISCONNECTION_RESPONSE"}
    ELSE FALSE

DisconnectionInFlight ==
    \E e \in Endpoints : \E i \in DOMAIN link[e] : IsDisconnection(link[e][i])

(* A channel is gone: closed, 'close' emitted once, not in the map *)
Gone(p) ==
    /\ Ch(p).state = "CLOSED"
    /\ emitted[p[1]][p[2]].close = 1
    /\ p[2] \notin Registered(p[1])

(* C7 for the receiver of a Disconnection Request for an open channel: it  *)
(* replies with a Disconnection Response, closes, emits 'close' and leaves *)
(* the map.                                                                *)
C7_Receiver(e) ==
    LET request == Head(link[e]).payload
        u == find_channel(e, request.destination_cid)
    IN  (/\ on_l2cap_disconnection_request(e)
         /\ u # 0
         /\ chan[e][u].state = "OPEN")
        => /\ chan'[e][u].state = "CLOSED"
           /\ emitted'[e][u].close = emitted[e][u].close + 1
           /\ u \notin {channels'[e][k] : k \in DOMAIN channels'[e]}
           /\ connected[Peer(e)] =>
                  link'[Peer(e)] = Append(link[Peer(e)],
                      [cid |-> L2CAP_SIGNALING_CID,
                       payload |-> L2CAP_Disconnection_Response(
                           request.identifier, request.destination_cid,
                           request.source_cid)])

(* C7 for the sender of the Disconnection Request, when the response comes *)
C7_Sender(e) ==
    LET response == Head(link[e]).payload
        u == find_channel(e, response.source_cid)
    IN  (/\ on_l2cap_disconnection_response(e)
         /\ u # 0
         /\ chan[e][u].state = "WAIT_DISCONNECT")
        => /\ chan'[e][u].state = "CLOSED"
           /\ emitted'[e][u].close = emitted[e][u].close + 1
           /\ u \notin {channels'[e][k] : k \in DOMAIN channels'[e]}

(* C7 for the exchange as a whole: once the Disconnection Request a side   *)
(* sent for an open channel and the answer to it have crossed a connection *)
(* that is still there, the channels at both ends are gone.                *)
C7_BothClosed ==
    \A pq \in ClassicPairs :
        (/\ calls[pq[1][1]][pq[1][2]].disconnect # "none"
         /\ connected[1] /\ connected[2]
         /\ ~DisconnectionInFlight)
        => Gone(pq[1]) /\ Gone(pq[2])

C7_Disconnection ==
    /\ []C7_BothClosed
    /\ [][\A e \in Endpoints : C7_Receiver(e) /\ C7_Sender(e)]_vars

(* One side has disconnected an open channel and both ends are gone *)
C7_Witness ==
    \E pq \in ClassicPairs :
        /\ calls[pq[1][1]][pq[1][2]].disconnect = "returned"
        /\ calls[pq[2][1]][pq[2][2]].disconnect = "none"
        /\ connected[1] /\ connected[2]
        /\ Gone(pq[1]) /\ Gone(pq[2])


(* C8: the channels a manager holds for the connection have source CIDs    *)
(* that differ from one another, each is in the channels map under its own *)
(* source CID, and the source CID of every channel made is in the dynamic  *)
(* range of its kind.                                                      *)
C8_CidsDistinctInRange ==
    /\ \A e \in Endpoints :
           /\ \A u \in Registered(e), v \in Registered(e) :
                  u # v => chan[e][u].source_cid # chan[e][v].source_cid
           /\ \A k \in DOMAIN channels[e] : chan[e][channels[e][k]].source_cid = k
    /\ \A p \in LeChannels :
           /\ Ch(p).source_cid >= L2CAP_LE_U_DYNAMIC_CID_RANGE_START
           /\ Ch(p).source_cid <= L2CAP_LE_U_DYNAMIC_CID_RANGE_END
    /\ \A p \in ClassicChannels :
           /\ Ch(p).source_cid >= L2CAP_ACL_U_DYNAMIC_CID_RANGE_START
           /\ Ch(p).source_cid <= L2CAP_ACL_U_DYNAMIC_CID_RANGE_END

(* A manager holds two LE credit-based channels, each under its source CID *)
C8_Witness ==
    \E e \in Endpoints :
        /\ Cardinality(DOMAIN channels[e]) = 2
        /\ \A k \in DOMAIN channels[e] : chan[e][channels[e][k]].kind = "le"
        /\ Cardinality(Registered(e)) = 2

(* C9: a classic channel in OPEN and an LE credit-based channel in         *)
(* CONNECTED are in the channels map of their manager, under their source  *)
(* CID.                                                                    *)
C9_OpenChannelInMap ==
    \A e \in Endpoints : \A u \in DOMAIN chan[e] :
        chan[e][u].state \in {"OPEN", "CONNECTED"} =>
            find_channel(e, chan[e][u].source_cid) = u

(* A host that has lost the connection holds a channel that was open *)
C9_Witness ==
    \E e \in Endpoints : \E u \in DOMAIN chan[e] :
        /\ ~connected[e]
        /\ chan[e][u].kind = "classic"
        /\ emitted[e][u].open = 1
        /\ emitted[e][u].close = 1
        /\ calls[e][u].disconnect = "none"

(* The terminal state of a channel of either class *)
Terminal(c) == IF c.kind = "le" THEN c.state = "DISCONNECTED" ELSE c.state = "CLOSED"

(* C10: when the manager has processed the disconnection event, every      *)
(* channel it held for the connection is in its terminal state and its     *)
(* maps hold no channel of the connection.                                 *)
C10_AllAborted ==
    [][\A e \in Endpoints :
           on_disconnection(e) =>
               /\ \A u \in Registered(e) : Terminal(chan'[e][u])
               /\ channels'[e] = Empty
               /\ le_coc_channels'[e] = Empty]_vars

(* The pending field that guards the resource a call is made on, as a      *)
(* reference to the call that waits: ClassicChannel.response, the          *)
(* manager's connection_parameters_update_response, and the                *)
(* pending_request of the sdp Client (set for the search in hand).         *)
PendingField(e, call) ==
    IF call.on = "channel" THEN chan[e][call.u].response
    ELSE IF call.on = "manager" THEN connection_parameters_update_response[e]
    ELSE IF sdp_client[e].pending_request # None THEN Some(sdp_client[e].call)
    ELSE None

(* The same field after the step *)
PendingFieldNext(e, call) ==
    IF call.on = "channel" THEN chan'[e][call.u].response
    ELSE IF call.on = "manager" THEN connection_parameters_update_response'[e]
    ELSE IF sdp_client'[e].pending_request # None THEN Some(sdp_client'[e].call)
    ELSE None

(* Every call that waits is the one its resource's pending field refers to *)
C11_FirstStaysPending ==
    \A e \in Endpoints : \A k \in DOMAIN requests[e] :
        requests[e][k].status = "pending" => PendingField(e, requests[e][k]) = Some(k)

(* C11: a call made on a resource while its pending field is set raises    *)
(* InvalidStateError, and leaves the field and the calls made before as    *)
(* they were; the call that waits stays the one the field refers to, so    *)
(* that the response resolves it.                                          *)
C11_SecondAttemptFails ==
    /\ []C11_FirstStaysPending
    /\ [][\A e \in Endpoints :
              Len(requests'[e]) > Len(requests[e]) =>
                  LET call == requests'[e][Len(requests'[e])]
                  IN  /\ SubSeq(requests'[e], 1, Len(requests[e])) = requests[e]
                      /\ PendingField(e, call) # None =>
                             /\ call.status = "InvalidStateError"
                             /\ PendingFieldNext(e, call) = PendingField(e, call)
                             /\ link' = link]_vars

(* On a channel that is open, a request was refused while another waited,  *)
(* and the one that waited has been resolved by a response                 *)
C11_Witness ==
    \E e \in Endpoints : \E k \in DOMAIN requests[e], j \in DOMAIN requests[e] :
        /\ k < j
        /\ requests[e][k].on = "channel"
        /\ requests[e][j].on = "channel"
        /\ requests[e][k].u = requests[e][j].u
        /\ requests[e][k].status = "resolved"
        /\ requests[e][j].status = "InvalidStateError"
        /\ chan[e][requests[e][k].u].state = "OPEN"

(* C12: a Device.connect on LE called while an earlier one has not yet     *)
(* resolved raises InvalidStateError, and no second LE Create Connection   *)
(* command is sent.                                                        *)
C12_OnePendingLeConnect ==
    [][\A t \in DOMAIN tasks' \ DOMAIN tasks :
          (/\ tasks'[t].op = "connect"
           /\ \E k \in DOMAIN tasks : tasks[k].op = "connect" /\ tasks[k].pc # "done")
          => /\ tasks'[t].result = "InvalidStateError"
             /\ hci_commands'["HCI_LE_Create_Connection"]
                    = hci_commands["HCI_LE_Create_Connection"]]_vars

(* C13: a Device.connect whose timeout has expired has sent the cancel     *)
(* command, and once it has resolved it has raised TimeoutError: it never  *)
(* returns a connection that came late.                                    *)
C13_TimeoutResolvesWithTimeout ==
    \A t \in DOMAIN tasks :
        (tasks[t].op = "connect" /\ tasks[t].timed_out) =>
            /\ hci_commands["HCI_LE_Create_Connection_Cancel"] >= 1
            /\ tasks[t].pc = "done" => tasks[t].result = "TimeoutError"

(* C14: no disconnect, authenticate, encrypt or request_remote_name waits  *)
(* on its future once the Device has handled the disconnection of its      *)
(* connection.                                                             *)
C14_DisconnectionResolves ==
    \A t \in DOMAIN tasks :
        (/\ tasks[t].op \in Operations
         /\ tasks[t].pc = "wait"
         /\ tasks[t].pending = "pending")
        => tasks[t].handle \in DOMAIN device.connections

(* C15: every event about a handle, from the connection event of the       *)
(* controller to its disconnection event, finds the connection in the map, *)
(* and the map holds no handle whose disconnection event has come.         *)
C15_ConnectionMap ==
    /\ \A r \in raised : r.error # "ValueError"
    /\ \A h \in DOMAIN device.connections : h \in controller.links

(* C16: the advertising that the Device restarts when a peripheral         *)
(* connection ends has the type and the target of an advertising the       *)
(* application started with auto_restart, and it does not fail for want of *)
(* a target.                                                               *)
C16_RestartSameParameters ==
    \A t \in DOMAIN tasks :
        (tasks[t].restart /\ tasks[t].role = "PERIPHERAL") =>
            /\ tasks[t].result # "ValueError"
            /\ \E k \in AppCalls :
                   /\ tasks[k].op = "start_advertising"
                   /\ tasks[k].auto_restart
                   /\ tasks[k].advertising_type = tasks[t].advertising_type
                   /\ tasks[k].target = tasks[t].target

(* C17: the end of a connection in which the Device is central starts no   *)
(* advertising.                                                            *)
C17_NoRestartAsCentral ==
    \A t \in DOMAIN tasks : tasks[t].restart => tasks[t].role # "CENTRAL"

(* The scannable advertisements that came during an active scan *)
ScannableAdvertisements ==
    {i \in DOMAIN reports : reports[i].active /\ reports[i].event_type = "ADV_IND"}

(* The report that follows the i-th one from the same address, or 0 *)
NextReport(i) ==
    LET later == {j \in DOMAIN reports : j > i /\ reports[j].address = reports[i].address}
    IN  IF later = {} THEN 0 ELSE CHOOSE j \in later : \A k \in later : j <= k

(* The 'advertisement' events emitted when the i-th report was handled *)
EmittedAt(i) == {k \in DOMAIN advertisements : advertisements[k].at = i}

(* C18: in an active scan no event is emitted for a scannable              *)
(* advertisement by itself, and when the scan response of its address      *)
(* follows, one event is emitted, with the data of both.                   *)
C18_HeldUntilScanResponse ==
    \A i \in ScannableAdvertisements :
        /\ EmittedAt(i) = {}
        /\ (NextReport(i) # 0 /\ reports[NextReport(i)].event_type = "SCAN_RSP") =>
               /\ Cardinality(EmittedAt(NextReport(i))) = 1
               /\ \A k \in EmittedAt(NextReport(i)) :
                      advertisements[k].data = reports[i].data \o reports[NextReport(i)].data

(* C19: a channel that has taken more bytes than the SDU length announced  *)
(* is no longer connected: it has started its disconnection.               *)
C19_OverflowDisconnects ==
    \A q \in LeChannels :
        emitted[q[1]][q[2]].overflow > 0 => chan[q[1]][q[2]].state # "CONNECTED"

(* C20: the SDUs a channel has built are its writes, one SDU for each      *)
(* write and in their order: the payload of the k-th SDU, which its length *)
(* prefix counts, is the data of the k-th write.                           *)
C20_OneSduPerWrite ==
    \A p \in LeChannels : IsPrefix(assembled[p[1]][p[2]], written[p[1]][p[2]])

(* C21: once an LE credit-based channel is DISCONNECTED by a Disconnection *)
(* Request/Response exchange, the manager holds it no longer: neither      *)
(* channels (local cid) nor le_coc_channels (the peer's source cid) still  *)
(* refers to it, so both cids are free for a new channel.                  *)
C21_ClosedLeChannelDropped ==
    \A p \in LeChannels :
        Ch(p).state = "DISCONNECTED" => p[2] \notin Registered(p[1])

(* The round trips of configuration the specification allows a channel *)
ConfigurationRounds == 8

(* C22: configuration is bounded: a classic channel whose peer keeps       *)
(* answering Unacceptable Parameters sends its first Configure Request and *)
(* at most ConfigurationRounds more, and then gives up.                    *)
C22_ConfigurationBounded ==
    \A p \in ClassicChannels :
        emitted[p[1]][p[2]].config_sent <= 1 + ConfigurationRounds

(* The signaling requests a peer may send that the manager cannot handle:  *)
(* one whose code it has no handler for, and a Configure or Disconnection  *)
(* Request that names a cid it holds no channel for.                       *)
CannotHandle(e) ==
    /\ connected[e]
    /\ link[e] # <<>>
    /\ Head(link[e]).cid = L2CAP_SIGNALING_CID
    /\ LET request == Head(link[e]).payload
       IN  \/ request.code = "L2CAP_CREATE_CHANNEL_REQUEST"
           \/ /\ request.code \in {"L2CAP_CONFIGURE_REQUEST", "L2CAP_DISCONNECTION_REQUEST"}
              /\ find_channel(e, request.destination_cid) = 0

(* C23: when the manager takes a signaling request it cannot handle, it    *)
(* sends a Command Reject with the identifier of the request back on the   *)
(* signaling channel the request came on.                                  *)
C23_CommandReject ==
    [][\A e \in Endpoints :
          (CannotHandle(e) /\ link'[e] = Tail(link[e]))
              => link'[Peer(e)] = Append(link[Peer(e)],
                     [cid |-> Head(link[e]).cid,
                      payload |-> L2CAP_Command_Reject(Head(link[e]).payload.identifier)])]_vars

(* C24: no exception leaves the callback that receives a PDU, whatever the *)
(* signaling frame the peer has sent.                                      *)
C24_NoExceptionFromOnPdu ==
    \A r \in raised : r.handler # "on_pdu"

(* The UUID occurs in the value, searched through its Sequence and         *)
(* Alternative values                                                      *)
RECURSIVE OccursIn(_, _)
OccursIn(uuid, value) ==
    IF type_of(value) = "UUID" THEN value_of(value) = uuid
    ELSE IF type_of(value) \in {"SEQUENCE", "ALTERNATIVE"}
    THEN \E i \in DOMAIN value_of(value) : OccursIn(uuid, value_of(value)[i])
    ELSE FALSE

(* C25: the records a search returns are the records in which every UUID   *)
(* of the search pattern occurs in some attribute value, where the search  *)
(* descends into nested Sequence and Alternative values.                   *)
C25_MatchEveryUuid ==
    matching_services # None =>
        LET search_pattern == matching_services[1].search_pattern
        IN  DOMAIN matching_services[1].services =
                {handle \in DOMAIN service_records :
                    \A k \in DOMAIN value_of(search_pattern) :
                        \E i \in DOMAIN service_records[handle] :
                            OccursIn(value_of(value_of(search_pattern)[k]),
                                     service_records[handle][i].value)}

(* C26 for the server: a ServiceSearch response is an intermediate one,    *)
(* with a continuation state that is not empty and fewer handles than the  *)
(* total count, or a final one, with the continuation state 0x00.          *)
C26_Response(e) ==
    (sdp_server_on_pdu(e) /\ Len(link'[Peer(e)]) = Len(link[Peer(e)]) + 1) =>
        LET response == link'[Peer(e)][Len(link'[Peer(e)])].payload
        IN  response.pdu_id = "SDP_SERVICE_SEARCH_RESPONSE" =>
                \/ response.continuation_state = NoContinuation
                \/ /\ Len(response.continuation_state) > 1
                   /\ Len(response.service_record_handle_list)
                          < response.total_service_record_count

(* C26 for the client: when the final response of a search has come, the   *)
(* handles of all its responses together are as many as the total count    *)
(* the response reports.                                                   *)
C26_Total(e) ==
    LET client == sdp_client[e]
        future == client.pending_response[1]
    IN  (/\ search_services_resume(e)
         /\ future.state = "result"
         /\ future.value[1].continuation_state = NoContinuation)
        => /\ requests'[e][client.call].status = "resolved"
           /\ Len(requests'[e][client.call].result[1])
                  = future.value[1].total_service_record_count

C27_Bounded ==
    \A p \in ClassicChannels :
        LET log == delivered[p[1]][p[2]]
        IN  sdp_server[p[1]].registered =>
                \A i \in DOMAIN log :
                    \E j \in 1..i :
                        /\ i - j < SDP_CONTINUATION_WATCHDOG
                        /\ log[j].continuation_state = NoContinuation

(* C27, termination: a search that awaits its response returns *)
C27_Terminates ==
    \A e \in Clients : \A k \in 1..MaxRequests :
        (k \in DOMAIN requests[e] /\ requests[e][k].status = "pending")
            ~> (k \in DOMAIN requests[e] /\ requests[e][k].status # "pending")

(* C27: a search of the client ends although the server answers every      *)
(* request with a continuation state: the client stops re-issuing the      *)
(* request after SDP_CONTINUATION_WATCHDOG rounds.                         *)
C27_WatchdogStops == []C27_Bounded /\ C27_Terminates

(* A search has returned after SDP_CONTINUATION_WATCHDOG responses that    *)
(* each had a continuation state                                           *)
C27_Witness ==
    \E e \in Clients : \E k \in DOMAIN requests[e] :
        /\ requests[e][k].on = "sdp"
        /\ requests[e][k].status = "resolved"
        /\ Len(requests[e][k].result[1]) = SDP_CONTINUATION_WATCHDOG
        /\ Len(delivered[Peer(e)][sdp_server[Peer(e)].channel]) >= SDP_CONTINUATION_WATCHDOG

(* The data of the packets j..i, one after the other *)
RECURSIVE Fragments(_, _)
Fragments(j, i) ==
    IF j > i THEN <<>> ELSE acl_packets[j].data \o Fragments(j + 1, i)

(* C28: each PDU the assembler has emitted is made of a first fragment and *)
(* of the continuations that followed it up to the emission, in their      *)
(* order, all of them after the PDU emitted before; its length is the      *)
(* length field of the first fragment plus 4.  So a continuation with no   *)
(* first fragment in progress is part of no PDU.                           *)
C28_Reassembled ==
    \A n \in DOMAIN acl_pdus :
        \E j \in 1..acl_pdus[n].at :
            /\ n > 1 => j > acl_pdus[n - 1].at
            /\ acl_packets[j].pb_flag # HCI_ACL_PB_CONTINUATION
            /\ \A k \in (j + 1)..acl_pdus[n].at :
                   acl_packets[k].pb_flag = HCI_ACL_PB_CONTINUATION
            /\ acl_pdus[n].pdu = Fragments(j, acl_pdus[n].at)
            /\ Len(acl_pdus[n].pdu) = unpack_H(acl_packets[j].data) + 4

(* A continuation was dropped for want of a first fragment, and then a PDU *)
(* was emitted from a first fragment and two continuations                 *)
C28_Witness ==
    /\ Len(acl_packets) = 4
    /\ acl_packets[1].pb_flag = HCI_ACL_PB_CONTINUATION
    /\ acl_pdus # <<>>
    /\ acl_pdus[1].at = 4
    /\ Len(acl_pdus[1].pdu) = 5

(* C29: the link never delivers within the call of the sender: every       *)
(* handler of a receiving controller runs from a callback of the event     *)
(* loop, after the send call has returned.                                 *)
C29_NeverSynchronous ==
    \A i \in DOMAIN link_log : ~link_log[i].synchronous

(* The connect calls of a central for a peer address, and the completions  *)
(* the central has got for it                                              *)
ConnectCalls(central, peer) ==
    {k \in DOMAIN link_calls :
        link_calls[k] = [op |-> "connect", sender |-> central, address |-> peer]}
Completions(central, peer) ==
    {i \in DOMAIN link_log :
        /\ link_log[i].handler = "on_le_peripheral_connection_complete"
        /\ link_log[i].controller = central
        /\ link_log[i].from = peer}

(* C30: once the event loop has run its callbacks, each connect call has   *)
(* given its central one completion: with HCI_SUCCESS, and the peripheral  *)
(* notified, when a controller has the peer address, and with              *)
(* HCI_CONNECTION_ACCEPT_TIMEOUT_ERROR when none has.                      *)
C30_OneCompletionPerConnect ==
    loop = <<>> =>
        \A central \in ControllerAddresses, peer \in TargetAddresses :
            /\ Cardinality(Completions(central, peer))
                   = Cardinality(ConnectCalls(central, peer))
            /\ \A i \in Completions(central, peer) :
                   IF peer \in ControllerAddresses
                   THEN /\ link_log[i].status = HCI_SUCCESS
                        /\ i + 1 \in DOMAIN link_log
                        /\ link_log[i + 1] = Handler("on_le_central_connected", peer,
                                                     central, HCI_SUCCESS, FALSE)
                   ELSE link_log[i].status = HCI_CONNECTION_ACCEPT_TIMEOUT_ERROR

(* C31: in Enhanced Retransmission Mode the sink of a channel is given     *)
(* exactly the SDUs the peer wrote, in order, those larger than the MPS    *)
(* included: what was delivered is a prefix of what was written, and all   *)
(* of it once no PDU is in flight.                                         *)
C31_ErtmReassembled ==
    \A e \in Endpoints :
        /\ IsPrefix(ertm_delivered[e], ertm_written[Peer(e)])
        /\ ertm_link[e] = <<>> => ertm_delivered[e] = ertm_written[Peer(e)]

(* C32: a connection after a disconnection behaves like the first one: no  *)
(* LeCreditBasedChannel.connect raises 'too many concurrent connection     *)
(* requests' (the channel stays in INIT and the call raises) for a request *)
(* that another connection left behind, as none does on a first connection *)
(* with fewer than 256 requests.                                           *)
C32_SecondConnectionAlike ==
    \A e \in Endpoints, u \in 1..(2 * MaxChannels) :
        u \in DOMAIN chan[e] =>
            ~(/\ chan[e][u].kind = "le"
              /\ chan[e][u].state = "INIT"
              /\ calls[e][u].connect = "raised")

(* C33: when both ends of an open classic channel have called disconnect   *)
(* and every Disconnection Request and Response has been taken from a      *)
(* connection that is still there, both calls have returned (or are about  *)
(* to) and both channels are CLOSED.                                       *)
C33_BothDisconnectsReturn ==
    \A pq \in ClassicPairs :
        (/\ calls[pq[1][1]][pq[1][2]].disconnect # "none"
         /\ calls[pq[2][1]][pq[2][2]].disconnect # "none"
         /\ connected[1] /\ connected[2]
         /\ ~DisconnectionInFlight)
        => /\ calls[pq[1][1]][pq[1][2]].disconnect \in {"ok", "returned"}
           /\ calls[pq[2][1]][pq[2][2]].disconnect \in {"ok", "returned"}
           /\ Ch(pq[1]).state = "CLOSED"
           /\ Ch(pq[2]).state = "CLOSED"

(* C34: once a host has seen the connection lost, none of its calls on a   *)
(* channel is left waiting: a connect or a disconnect that was pending has *)
(* been woken with an error (or with its result).                          *)
C34_PendingResolvedOnLoss ==
    \A e \in Endpoints :
        ~connected[e] =>
            \A u \in DOMAIN calls[e] :
                /\ calls[e][u].connect # "awaiting"
                /\ calls[e][u].disconnect # "awaiting"

(* C35: a classic connect call whose Configure Request the peer has        *)
(* answered with a failure is not left waiting in a configuration state:   *)
(* once every PDU has been taken from a connection that is still there, no *)
(* channel of a client is in a configuration state with its connect call   *)
(* still awaiting.                                                         *)
C35_RejectedConnectFails ==
    (\A e \in Endpoints : connected[e] /\ link[e] = <<>>) =>
        \A e \in Clients : \A u \in DOMAIN calls[e] :
            ~(/\ calls[e][u].connect = "awaiting"
              /\ chan[e][u].state \in {"WAIT_CONFIG", "WAIT_SEND_CONFIG",
                                       "WAIT_CONFIG_REQ_RSP", "WAIT_CONFIG_RSP",
                                       "WAIT_CONFIG_REQ"})

(* C36: a Device.connect on LE resolves with a connection only when the    *)
(* controller has made the connection it asked for, the one in which the   *)
(* device is the central: a connection made in the role of peripheral      *)
(* while the call is pending does not complete it.                         *)
C36_ConnectResolvesWithItsPeer ==
    \A t \in DOMAIN tasks :
        (tasks[t].op = "connect" /\ tasks[t].pending = "result")
        => \E k \in DOMAIN tasks :
               /\ tasks[k].op = "new_connection"
               /\ tasks[k].role = "CENTRAL"

(* C37: LE Credit Based Connection Requests on different connections do    *)
(* not interfere: a call raises 'too many concurrent connection requests'  *)
(* only for a request outstanding on its own connection, and a call is     *)
(* completed only by the response that came on its connection with the     *)
(* identifier of its request.                                              *)
C37_ConnectionsIndependent ==
    \A k \in DOMAIN coc_calls :
        /\ coc_calls[k].status = "raised" =>
               \E j \in 1..(k - 1) :
                   /\ coc_calls[j].handle = coc_calls[k].handle
                   /\ coc_calls[j].identifier = coc_calls[k].identifier
        /\ coc_calls[k].status = "ok" =>
               coc_calls[k].response = Some([handle |-> coc_calls[k].handle,
                                             identifier |-> coc_calls[k].identifier])

(* C38: the sdp Server serves the clients of different connections apart:  *)
(* every response is sent on the channel on which its request arrived, and *)
(* a search that has returned has all the handles of the matching records, *)
(* in order, whatever the other client asked in between.                   *)
C38_PerConnectionContinuation ==
    \A c \in SdpChannels :
        /\ \A i \in DOMAIN sdp_multi_link[c].to_client :
               sdp_multi_link[c].to_client[i].request_channel = c
        /\ sdp_multi_clients[c].status # "raised"
        /\ sdp_multi_clients[c].status = "returned" =>
               sdp_multi_clients[c].service_record_handle_list = match_services

(* A classic channel u of host e, made by create_classic_channel for a PSM *)
(* the peer has a server for, whose connect has not returned yet           *)
Connecting(e, u) ==
    /\ u \in DOMAIN chan[e]
    /\ chan[e][u].kind = "classic"
    /\ chan[e][u].psm \in DOMAIN servers(Peer(e))
    /\ calls[e][u].connect = "awaiting"

(* The call for channel u of host e has returned the channel, which is     *)
(* OPEN, as is the channel the peer's server made for it                   *)
Established(e, u) ==
    /\ u \in DOMAIN chan[e]
    /\ chan[e][u].kind = "classic"
    /\ chan[e][u].psm \in DOMAIN servers(Peer(e))
    /\ calls[e][u].connect = "returned"
    /\ chan[e][u].state = "OPEN"
    /\ LET v == find_channel(Peer(e), chan[e][u].destination_cid)
       IN  /\ v # 0
           /\ chan[Peer(e)][v].state = "OPEN"
           /\ chan[Peer(e)][v].destination_cid = chan[e][u].source_cid

StoppedAdvertising(s) ==
    /\ tasks[s].op = "stop_advertising"
    /\ tasks[s].pc = "done"
    /\ \A t \in AppCalls : tasks[t].op = "start_advertising" => t < s

(* C40: once stop_advertising has returned, and until the application      *)
(* calls start_advertising again, no step makes the Device start           *)
(* advertising of itself: on_disconnection creates no start_advertising    *)
(* task, whether or not a connection was up when stop_advertising was      *)
(* called.                                                                 *)
C40_NoRestartAfterStop ==
    [][(\E s \in DOMAIN tasks : StoppedAdvertising(s)) =>
           ~(/\ Len(tasks') = Len(tasks) + 1
             /\ tasks'[Len(tasks')].restart)]_vars

====
